---- MODULE Spec2Model ----
(***************************************************************************)
(* Sentiment scoring and aggregation engine of CrowdWisdomTrading          *)
(* (src/tools/sentiment_tool.py), the filing caches of                     *)
(* src/tools/sec_tool.py and the agent wrapper of                          *)
(* src/agents/sentiment_agent.py.                                          *)
(*                                                                         *)
(* Numbers.  Scores and confidences are kept in thousandths (the code      *)
(* rounds every returned score and confidence to 3 decimals): 1000 is 1.0, *)
(* 100 is the 0.1 label threshold.  A value that the code holds unrounded  *)
(* is kept as an exact fraction num/den, so that the label the code takes  *)
(* from the unrounded value and the score it returns after round(x, 3)     *)
(* are two different things here as well.                                  *)
(*                                                                         *)
(* Text.  A text is a sequence of tokens separated by single spaces.  The  *)
(* vocabulary is a fixed set of tokens; for each of them the tables below  *)
(* give what the code's regular expressions and `in` tests see in it.      *)
(***************************************************************************)
EXTENDS Integers, Sequences, FiniteSets, TLC

\* ------------------------------------------------------------------ bounds
\* longest text, in tokens
MaxWords == 2

\* ----------------------------------------------------------------- numbers
Max(a, b) == IF a >= b THEN a ELSE b
Min(a, b) == IF a <= b THEN a ELSE b
Abs(x) == IF x < 0 THEN -x ELSE x

\* round(num/den) to the nearest integer, ties to even (Python's round);
\* den > 0.  \div is the floor division, % the non-negative remainder.
RoundDiv(num, den) ==
    LET q == num \div den
        r == num % den
    IN  IF 2 * r < den THEN q
        ELSE IF 2 * r > den THEN q + 1
        ELSE IF q % 2 = 0 THEN q ELSE q + 1

RECURSIVE SumSeq(_)
SumSeq(s) == IF s = <<>> THEN 0 ELSE Head(s) + SumSeq(Tail(s))

\* the value Python's None
None == [method |-> "None"]

\* ------------------------------------------------------------- vocabulary
\* The raw tokens.  EMOJI_ROCKET and EMOJI_CRY stand for the one-character
\* emoji U+1F680 and U+1F62D, the others are the text itself.
RawTokens ==
    { "stock", "buy", "bullish", "crash", "MOON", "SELL", "now", "maybe",
      "great", "!", "?", "$5", "+20%", "-40%", "EMOJI_ROCKET", "EMOJI_CRY",
      "http://x.co", "target", "up" }

\* what _clean_text leaves of a token ("" when only the surrounding spaces
\* are left of it)
CleanedOnly == { "20", "-40", "" }

\* The texts of _get_market_sentiment_indicators, each kept as one token:
\*   CTX_CAUTIOUS    "Market sentiment around {username} remains cautious"
\*   CTX_DISCUSSION  "Social media influence from {username} creating market
\*                    discussion"
\*   CTX_TSLA        "Electric vehicle sector facing supply chain challenges
\*                    but demand strong"
\* (lengths for a five-letter username that holds no word of the lists)
ContextTokens == { "CTX_CAUTIOUS", "CTX_DISCUSSION", "CTX_TSLA" }

Tokens == RawTokens \cup CleanedOnly \cup ContextTokens

\* len(token)
TokLen(t) ==
    CASE t \in {"stock", "crash", "maybe", "great"} -> 5
      [] t \in {"buy", "now", "-40"} -> 3
      [] t = "bullish" -> 7
      [] t \in {"MOON", "SELL", "+20%", "-40%"} -> 4
      [] t \in {"!", "?", "EMOJI_ROCKET", "EMOJI_CRY"} -> 1
      [] t \in {"$5", "20", "up"} -> 2
      [] t = "http://x.co" -> 11
      [] t = "target" -> 6
      [] t = "CTX_CAUTIOUS" -> 46
      [] t = "CTX_DISCUSSION" -> 60
      [] t = "CTX_TSLA" -> 72
      [] OTHER -> 0

\* the words of the code's word lists that occur in token.lower()
Sub(t) ==
    CASE t = "buy" -> {"buy"}
      [] t = "bullish" -> {"bullish", "bull"}
      [] t = "crash" -> {"crash"}
      [] t = "MOON" -> {"moon"}
      [] t = "SELL" -> {"sell"}
      [] t = "now" -> {"now"}
      [] t = "maybe" -> {"maybe"}
      [] t = "great" -> {"great"}
      [] t = "target" -> {"target"}
      [] t = "up" -> {"up"}
      [] t = "CTX_TSLA" -> {"strong", "up"}
      [] OTHER -> {}

\* word in text.lower()   (no word list entry spans two tokens of the
\* vocabulary)
Occurs(word, text) == \E i \in 1..Len(text) : word \in Sub(text[i])

AnyOccurs(words, text) == \E w \in words : Occurs(w, text)

\* text.count(token)
Count(text, t) == Cardinality({i \in 1..Len(text) : text[i] = t})

\* all texts of at most n tokens
TextsUpTo(n) == UNION {[1..k -> RawTokens] : k \in 0..n}

\* ------------------------------------------------------------ _clean_text
IsUrl(t) == t = "http://x.co"

\* re.sub(r'[^\w\s$#@.,!?-]', '', token)
StripNoise(t) ==
    CASE t = "+20%" -> "20"
      [] t = "-40%" -> "-40"
      [] t \in {"EMOJI_ROCKET", "EMOJI_CRY"} -> ""
      [] OTHER -> t

RECURSIVE DropUrls(_)
DropUrls(text) ==
    IF text = <<>> THEN <<>>
    ELSE IF IsUrl(Head(text)) THEN DropUrls(Tail(text))
    ELSE <<Head(text)>> \o DropUrls(Tail(text))

\* URLs go (with the whitespace run they leave, which is collapsed and
\* stripped), then the noise characters go and leave their spaces behind.
_clean_text(text) ==
    LET u == DropUrls(text)
    IN  [i \in 1..Len(u) |-> StripNoise(u[i])]

\* len(text)
TextLen(text) ==
    IF text = <<>> THEN 0
    ELSE SumSeq([i \in 1..Len(text) |-> TokLen(text[i])]) + (Len(text) - 1)

RECURSIVE LStrip(_)
LStrip(text) ==
    IF text = <<>> THEN <<>>
    ELSE IF Head(text) = "" THEN LStrip(Tail(text)) ELSE text

RECURSIVE RStrip(_)
RStrip(text) ==
    IF text = <<>> THEN <<>>
    ELSE IF text[Len(text)] = "" THEN RStrip(SubSeq(text, 1, Len(text) - 1))
    ELSE text

\* len(text.strip())
StripLen(text) == TextLen(RStrip(LStrip(text)))

\* ------------------------------------------------------------- word lists
positive_keywords ==
    { "bullish", "buy", "long", "calls", "moon", "rocket", "pump", "rally",
      "breakout", "surge", "strong", "bull", "green", "gains", "profit",
      "outperform", "upgrade", "target", "momentum", "squeeze",
      "diamond hands", "hodl", "accumulate", "oversold", "bounce", "support",
      "catalyst", "beat expectations", "revenue growth", "earnings beat",
      "positive guidance" }

negative_keywords ==
    { "bearish", "sell", "short", "puts", "crash", "dump", "drop", "fall",
      "breakdown", "bear", "red", "losses", "weak", "correction", "decline",
      "underperform", "downgrade", "resistance", "overbought", "paper hands",
      "panic", "capitulation", "bleeding", "baghold", "dead cat bounce",
      "miss estimates", "revenue decline", "earnings miss",
      "negative guidance" }

strong_positive == {"moon", "rocket", "breakout", "bull", "squeeze"}
strong_negative == {"crash", "dump", "bear", "breakdown", "panic"}

\* ------------------------------------------------------------------ labels
\* the label of the value num/den (den > 0) under the cut-off thr:
\* 'positive' if value > thr else 'negative' if value < -thr else 'neutral'
LabelOf(num, den, thr) ==
    IF num > thr * den THEN "positive"
    ELSE IF num < (0 - thr) * den THEN "negative"
    ELSE "neutral"

\* max(-1, min(1, x)) on thousandths
Clamp1(x) == Max(-1000, Min(1000, x))

\* --------------------------------------------- _analyze_financial_keywords
\* min(0.9, total_weight * 0.15 + 0.3), uncapped variant first
KeywordConfidenceUncapped(total_weight) == total_weight * 150 + 300

KeywordConfidence(total_weight) == Min(900, total_weight * 150 + 300)

_analyze_financial_keywords(text) ==
    LET positive_matches == {w \in positive_keywords : Occurs(w, text)}
        negative_matches == {w \in negative_keywords : Occurs(w, text)}
        positive_weight ==
            Cardinality(positive_matches)
            + 2 * Cardinality({w \in strong_positive : Occurs(w, text)})
        negative_weight ==
            Cardinality(negative_matches)
            + 2 * Cardinality({w \in strong_negative : Occurs(w, text)})
        total_weight == positive_weight + negative_weight
        den == Max(total_weight, 1)
        \* raw_score = num/den in thousandths
        num == 1000 * (positive_weight - negative_weight)
        normalized ==
            IF num > 1000 * den THEN 1000 * den
            ELSE IF num < (0 - 1000) * den THEN (0 - 1000) * den
            ELSE num
    IN  IF total_weight = 0 THEN None
        ELSE [ score |-> RoundDiv(normalized, den),
               sentiment |-> LabelOf(normalized, den, 100),
               confidence |-> KeywordConfidence(total_weight),
               method |-> "financial_keywords",
               positive_matches |-> positive_matches,
               negative_matches |-> negative_matches ]

\* --------------------------------------------- _analyze_sentiment_patterns
\* caps_words: the words that are upper case and longer than 2
caps_words(text) ==
    SelectSeq(text, LAMBDA t : t \in {"MOON", "SELL"})

\* one caps word's contribution to caps_sentiment
CapsWordScore(t) ==
    IF \E w \in {"buy", "long", "bull", "moon"} : w \in Sub(t) THEN 200
    ELSE IF \E w \in {"sell", "short", "bear", "crash"} : w \in Sub(t)
         THEN 0 - 200
    ELSE 0

\* emoji_patterns, summed over the occurrences (the emoji of the table that
\* the vocabulary has)
EmojiScore(text) ==
    300 * Count(text, "EMOJI_ROCKET") - 300 * Count(text, "EMOJI_CRY")

\* the score before "Normalize score"
PatternRawScore(text) ==
    LET exclamation_count == Count(text, "!")
        excl ==
            IF exclamation_count = 0 THEN 0
            ELSE IF AnyOccurs({"good", "great", "amazing", "wow"}, text)
                 THEN Min(300, exclamation_count * 100)
            ELSE Min(150, exclamation_count * 50)
        quest ==
            IF Count(text, "?") = 0 THEN 0
            ELSE Min(200, Count(text, "?") * 100)
        caps == caps_words(text)
        caps_sentiment ==
            SumSeq([i \in 1..Len(caps) |-> CapsWordScore(caps[i])])
    IN  excl - quest + caps_sentiment + EmojiScore(text)

\* _analyze_sentiment_patterns with a confidence raised where a cue was found
_analyze_sentiment_patterns_cued(text) ==
    [ score |-> Clamp1(PatternRawScore(text)),
      sentiment |-> LabelOf(Clamp1(PatternRawScore(text)), 1, 100),
      confidence |-> IF PatternRawScore(text) # 0 THEN 500 ELSE 400,
      method |-> "pattern_analysis" ]

_analyze_sentiment_patterns(text) ==
    LET score == Clamp1(PatternRawScore(text))
    IN  [ score |-> score,
          sentiment |-> LabelOf(score, 1, 100),
          confidence |-> 400,
          method |-> "pattern_analysis" ]

\* ----------------------------------------------- _analyze_context_sentiment
\* re.findall(r'\$\d+', text)
price_pattern(text) == SelectSeq(text, LAMBDA t : t = "$5")

\* re.findall(r'(\+|\-)?(\d+)%', text), as <<sign, value>>
PercentOf(t) ==
    CASE t = "+20%" -> <<"+", 20>>
      [] t = "-40%" -> <<"-", 40>>
      [] OTHER -> <<"", 0>>

percentage_pattern(text) ==
    LET hits == SelectSeq(text, LAMBDA t : t \in {"+20%", "-40%"})
    IN  [i \in 1..Len(hits) |-> PercentOf(hits[i])]

\* the cut-off of the contextual scorer's own label (0.05)
ContextLabelThreshold == 50

ContextRaw(text) ==
    LET dollar == \E i \in 1..Len(text) : text[i] = "$5"
        pct == percentage_pattern(text)
        found == dollar /\ (price_pattern(text) # <<>> \/ pct # <<>>)
        target ==
            IF found /\ AnyOccurs({"target", "pt ", "price target"}, text)
            THEN 200 ELSE 0
        up == AnyOccurs({"gain", "up"}, text)
        down == AnyOccurs({"loss", "down"}, text)
        PctScore(m) ==
            IF m[1] = "+" \/ up THEN Min(300, m[2] * 10)
            ELSE IF m[1] = "-" \/ down THEN 0 - Min(300, m[2] * 10)
            ELSE 0
        pcts ==
            IF found THEN SumSeq([i \in 1..Len(pct) |-> PctScore(pct[i])])
            ELSE 0
        urgency ==
            AnyOccurs({"now", "today", "asap", "quickly", "immediately"}, text)
        uncertainty ==
            AnyOccurs({"maybe", "might", "could", "uncertain", "not sure"},
                      text)
    IN  [ score |-> target + pcts + (IF urgency THEN 100 ELSE 0)
                    - (IF uncertainty THEN 100 ELSE 0),
          confidence |-> 300 + (IF found THEN 100 ELSE 0)
                         - (IF uncertainty THEN 100 ELSE 0) ]

\* _analyze_context_sentiment giving None for a text without a cue
_analyze_context_sentiment_or_none(text) ==
    IF ContextRaw(text) = [score |-> 0, confidence |-> 300] THEN None
    ELSE [ score |-> Clamp1(ContextRaw(text).score),
           sentiment |-> LabelOf(Clamp1(ContextRaw(text).score), 1,
                                 ContextLabelThreshold),
           confidence |-> Max(100, Min(900, ContextRaw(text).confidence)),
           method |-> "context_analysis" ]

_analyze_context_sentiment(text) ==
    LET raw == ContextRaw(text)
        score == Clamp1(raw.score)
        confidence == Max(100, Min(900, raw.confidence))
    IN  [ score |-> score,
          sentiment |-> LabelOf(score, 1, ContextLabelThreshold),
          confidence |-> confidence,
          method |-> "context_analysis" ]

\* ------------------------------------------------ _combine_sentiment_scores
\* sum of score * confidence, and of confidence, over the method results
RECURSIVE WeightedScoreSum(_)
WeightedScoreSum(rs) ==
    IF rs = <<>> THEN 0
    ELSE Head(rs).score * Head(rs).confidence + WeightedScoreSum(Tail(rs))

RECURSIVE ConfidenceSum(_)
ConfidenceSum(rs) ==
    IF rs = <<>> THEN 0
    ELSE Head(rs).confidence + ConfidenceSum(Tail(rs))

_combine_sentiment_scores(sentiment_scores, text) ==
    LET total_weighted_score == WeightedScoreSum(sentiment_scores)
        total_confidence == ConfidenceSum(sentiment_scores)
        n == Len(sentiment_scores)
    IN  IF n = 0
        THEN [sentiment |-> "neutral", score |-> 0, confidence |-> 100]
        ELSE IF total_confidence > 0
        THEN [ sentiment |->
                   LabelOf(total_weighted_score, total_confidence, 100),
               score |-> RoundDiv(total_weighted_score, total_confidence),
               confidence |-> Min(950, RoundDiv(total_confidence, n)),
               method |-> "combined",
               component_count |-> n,
               text_length |-> TextLen(text) ]
        ELSE [ sentiment |-> "neutral",
               score |-> 0,
               confidence |-> 100,
               method |-> "combined",
               component_count |-> n,
               text_length |-> TextLen(text) ]

\* ----------------------------------------------- _analyze_advanced_sentiment
\* the method results that are kept: `if financial_sentiment:` and the like
\* drop None (a result dict is never empty, so never falsy)
\* MethodScores with a neutral result of score 0 in the place of a None
MethodScoresNeutralForNone(text_clean) ==
    [ i \in 1..3 |->
        LET r == << _analyze_financial_keywords(text_clean),
                    _analyze_sentiment_patterns(text_clean),
                    _analyze_context_sentiment(text_clean) >>[i]
        IN  IF r = None
            THEN [ score |-> 0, sentiment |-> "neutral", confidence |-> 300,
                   method |-> "financial_keywords" ]
            ELSE r ]

MethodScores(text_clean) ==
    SelectSeq(<< _analyze_financial_keywords(text_clean),
                 _analyze_sentiment_patterns(text_clean),
                 _analyze_context_sentiment(text_clean) >>,
              LAMBDA r : r # None)

_analyze_advanced_sentiment(text) ==
    LET text_clean == _clean_text(text)
        sentiment_scores == MethodScores(text_clean)
    IN  IF text_clean = <<>> \/ TextLen(text_clean) = 0
           \/ StripLen(text_clean) < 5
        THEN None
        ELSE IF sentiment_scores # <<>>
        THEN _combine_sentiment_scores(sentiment_scores, text_clean)
        ELSE [ sentiment |-> "neutral", score |-> 0, confidence |-> 100,
               method |-> "fallback" ]

\* --------------------------------------------- _calculate_weighted_sentiment
\* source_weights.get(source, 0.5), in tenths
source_weight(source) ==
    CASE source = "news_api" -> 10
      [] source = "alpha_vantage_news" -> 9
      [] source = "rss_financial" -> 8
      [] source = "twitter_search" -> 7
      [] source = "market_sentiment" -> 6
      [] source = "twitter_alternative" -> 7
      [] OTHER -> 5

\* dict.get(key, default)
Get(d, key, default) == IF key \in DOMAIN d THEN d[key] ELSE default

\* final_weight with every source taken at the weight 1.0
final_weight_any_source(s) == 10 * s.confidence

\* final_weight = source_weight * confidence, in 1/10000; the source is
\* sentiment.get('source', 'unknown')
final_weight(s) == source_weight(Get(s, "source", "unknown")) * s.confidence

RECURSIVE SourceWeightedScoreSum(_)
SourceWeightedScoreSum(ss) ==
    IF ss = <<>> THEN 0
    ELSE Head(ss).score * final_weight(Head(ss))
         + SourceWeightedScoreSum(Tail(ss))

\* SourceWeightSum with the last item left out of the total
SourceWeightSumButLast(ss) ==
    SumSeq([i \in 1..(Len(ss) - 1) |->
               source_weight(Get(ss[i], "source", "unknown"))
                 * ss[i].confidence])

RECURSIVE SourceWeightSum(_)
SourceWeightSum(ss) ==
    IF ss = <<>> THEN 0
    ELSE final_weight(Head(ss)) + SourceWeightSum(Tail(ss))

_calculate_weighted_sentiment(sentiments) ==
    LET total_weighted_score == SourceWeightedScoreSum(sentiments)
        total_weight == SourceWeightSum(sentiments)
        n == Len(sentiments)
    IN  IF n = 0
        THEN [score |-> 0, sentiment |-> "neutral", confidence |-> 0]
        ELSE IF total_weight > 0
        THEN [ score |-> RoundDiv(total_weighted_score, total_weight),
               sentiment |-> LabelOf(total_weighted_score, total_weight, 100),
               confidence |-> Min(900, RoundDiv(total_weight, 10 * n)),
               sample_size |-> n,
               weighted_analysis |-> TRUE ]
        ELSE [ score |-> 0,
               sentiment |-> "neutral",
               confidence |-> 100,
               sample_size |-> n,
               weighted_analysis |-> TRUE ]

\* ------------------------------------------------ _get_sentiment_distribution
\* _get_sentiment_distribution with every item counted under the label of
\* the aggregate
_get_sentiment_distribution_of_aggregate(sentiments) ==
    [ b \in {"positive", "negative", "neutral"} |->
        IF b = _calculate_weighted_sentiment(sentiments).sentiment
        THEN Len(sentiments) ELSE 0 ]

_get_sentiment_distribution(sentiments) ==
    [ b \in {"positive", "negative", "neutral"} |->
        Cardinality({i \in 1..Len(sentiments) : sentiments[i].sentiment = b}) ]

\* ------------------------------------------------ _calculate_overall_sentiment
\* profile_results is a dict: a sequence of [profile, data] in insertion
\* order, one per key
DictHas(d, k) == \E i \in 1..Len(d) : d[i].profile = k

DictGet(d, k) == d[CHOOSE i \in 1..Len(d) : d[i].profile = k].data

\* d[k] = v: in place for a key the dict has, appended otherwise
DictSet(d, k, v) ==
    IF DictHas(d, k)
    THEN [i \in 1..Len(d) |->
            IF d[i].profile = k THEN [profile |-> k, data |-> v] ELSE d[i]]
    ELSE Append(d, [profile |-> k, data |-> v])

\* the entries that take part: no 'error', an 'average_sentiment' and
\* content_count > 0
valid_profiles(profile_results) ==
    LET ok == SelectSeq(profile_results,
                  LAMBDA e : /\ "error" \notin DOMAIN e.data
                             /\ "average_sentiment" \in DOMAIN e.data
                             /\ e.data.content_count > 0)
    IN  [i \in 1..Len(ok) |->
            [ score |-> ok[i].data.average_sentiment.score,
              confidence |-> ok[i].data.average_sentiment.confidence,
              weight |-> ok[i].data.content_count,
              profile |-> ok[i].profile ]]

RECURSIVE ProfileWeightedScoreSum(_)
ProfileWeightedScoreSum(vp) ==
    IF vp = <<>> THEN 0
    ELSE Head(vp).score * (Head(vp).weight * Head(vp).confidence)
         + ProfileWeightedScoreSum(Tail(vp))

\* ProfileWeightSum with the content count alone as the weight
ProfileWeightSumByCount(vp) ==
    SumSeq([i \in 1..Len(vp) |-> vp[i].weight * 1000])

RECURSIVE ProfileWeightSum(_)
ProfileWeightSum(vp) ==
    IF vp = <<>> THEN 0
    ELSE Head(vp).weight * Head(vp).confidence + ProfileWeightSum(Tail(vp))

RECURSIVE ContentSum(_)
ContentSum(vp) ==
    IF vp = <<>> THEN 0 ELSE Head(vp).weight + ContentSum(Tail(vp))

_calculate_overall_sentiment(profile_results) ==
    LET vp == valid_profiles(profile_results)
        total_weighted_score == ProfileWeightedScoreSum(vp)
        total_weight == ProfileWeightSum(vp)
        total_content == ContentSum(vp)
    IN  IF vp = <<>>
        THEN [ score |-> 0, sentiment |-> "neutral", confidence |-> 0,
               profiles_analyzed |-> 0, total_content |-> 0 ]
        ELSE [ score |->
                   IF total_weight > 0
                   THEN RoundDiv(total_weighted_score, total_weight) ELSE 0,
               sentiment |->
                   IF total_weight > 0
                   THEN LabelOf(total_weighted_score, total_weight, 100)
                   ELSE "neutral",
               confidence |-> Min(900, total_content * 10 + 300),
               profiles_analyzed |-> Len(vp),
               total_content |-> total_content,
               methodology |-> "weighted_multi_source" ]

\* ------------------------------------------------------------------- state
VARIABLES
    \* a call of the scoring methods on one text
    call,           \* "idle", "advanced" (_analyze_advanced_sentiment) or
                    \* "direct" (the three scorers and the combiner)
    text,           \* the text given
    methods,        \* <<keyword, pattern, context>> results, None included
    item,           \* the item-level result, or None
    \* SentimentAgent.run / analyze_profiles_sentiment
    request,        \* the inputs of the last run, and what the suppliers gave
    agent_result,   \* what SentimentAgent.run returned
    cache_dir,      \* data/cache/sentiment: file name -> [payload, mtime]
    call_log,       \* one record per run, in order
    now,            \* the clock, in hours
    \* sec_tool
    sec_cache,      \* data/cache: file name -> [payload, mtime]
    sec_call,       \* the last call of a fetcher that returned, with what
                    \* each iteration of its loop saw and did
    callers,        \* the calls of the fetchers that run side by side, each
                    \* with its place in the loop body
    \* the aggregators, called on their own
    direct,         \* one record [fn, input, result] per call, in order
    \* CrowdWisdomCrew.kickoff
    crew            \* one kickoff: its place in the body, the agent calls it
                    \* started and those that returned, in order, and what
                    \* it returned

scoreVars == <<call, text, methods, item, direct, crew>>
agentVars == <<request, agent_result, cache_dir, call_log>>
secVars == <<sec_cache, sec_call, callers>>
vars == <<call, text, methods, item, request, agent_result, cache_dir,
          call_log, now, sec_cache, sec_call, callers, direct, crew>>

\* ------------------------------------------------ analyze_profiles_sentiment
\* profile.lstrip('@')
lstrip_at(profile) == IF profile = "@alice" THEN "alice" ELSE profile

\* a content item of a supplier
Content(t, src) == [text |-> t, source |-> src]

\* list.append(x) if x not in list
AddOnce(list, x) ==
    IF \E i \in 1..Len(list) : list[i] = x THEN list ELSE Append(list, x)

\* the scored items of all_content: an item whose result is None is skipped,
\* the others get the source of their content
RECURSIVE profile_sentiments(_)
profile_sentiments(all_content) ==
    IF all_content = <<>> THEN <<>>
    ELSE LET sentiment == _analyze_advanced_sentiment(Head(all_content).text)
             rest == profile_sentiments(Tail(all_content))
         IN  IF sentiment = None THEN rest
             ELSE << [ sentiment |-> sentiment.sentiment,
                       score |-> sentiment.score,
                       confidence |-> sentiment.confidence,
                       method |-> sentiment.method,
                       source |-> Head(all_content).source ] >> \o rest

\* EntryOf with a zero, neutral result for a profile without content in the
\* place of the error entry
EntryOfNeutral(all_content, sents) ==
    IF sents # <<>>
    THEN [ content_count |-> Len(sents),
           average_sentiment |-> _calculate_weighted_sentiment(sents),
           sentiment_distribution |-> _get_sentiment_distribution(sents),
           data_sources |-> {sents[i].source : i \in 1..Len(sents)},
           sample_content |-> SubSeq(sents, 1, Min(3, Len(sents))) ]
    ELSE IF all_content = <<>>
    THEN [ content_count |-> 0,
           average_sentiment |-> _calculate_weighted_sentiment(<<>>),
           sentiment_distribution |-> _get_sentiment_distribution(<<>>),
           data_sources |-> {},
           sample_content |-> <<>> ]
    ELSE [ error |-> "Failed to analyze sentiment from available content",
           content_count |-> Len(all_content),
           sentiment_score |-> 0 ]

\* the entry of a profile whose iteration did not raise, from its content
\* and the scored items of it
EntryOf(all_content, sents) ==
    IF all_content = <<>>
    THEN [ error |-> "No content sources available",
           content_count |-> 0,
           sentiment_score |-> 0 ]
    ELSE IF sents # <<>>
    THEN [ content_count |-> Len(sents),
           average_sentiment |-> _calculate_weighted_sentiment(sents),
           sentiment_distribution |-> _get_sentiment_distribution(sents),
           data_sources |-> {sents[i].source : i \in 1..Len(sents)},
           sample_content |-> SubSeq(sents, 1, Min(3, Len(sents))) ]
    ELSE [ error |-> "Failed to analyze sentiment from available content",
           content_count |-> Len(all_content),
           sentiment_score |-> 0 ]

ProfileEntry(all_content) ==
    EntryOf(all_content, profile_sentiments(all_content))

\* data_sources_used after the suppliers of one profile returned
SourcesUsed(used, sup) ==
    LET u1 == IF sup.news # <<>> THEN AddOnce(used, "news_api") ELSE used
        u2 == IF sup.rss # <<>> THEN AddOnce(u1, "rss_feeds") ELSE u1
        u3 == IF sup.financial # <<>>
              THEN AddOnce(u2, "financial_news") ELSE u2
        \* Source 4 runs only with a TWITTER_BEARER_TOKEN; without one
        \* sup.twitter is empty
        u4 == IF sup.twitter # <<>>
              THEN AddOnce(u3, "twitter_alternative") ELSE u3
    IN  u4

\* ProfileRaised without the append to errors
ProfileRaisedUnlogged(results, profile) ==
    [results EXCEPT
        !.profile_results = DictSet(@, profile, [error |-> "exception"])]

\* the handler of an exception inside the loop body: the error is logged
\* and the entry is stored under the profile as given
ProfileRaised(results, profile) ==
    [results EXCEPT
        !.errors = Append(@, [profile |-> profile, message |-> "exception"]),
        !.profile_results = DictSet(@, profile, [error |-> "exception"])]

\* all_content of one profile
AllContent(sup) == sup.news \o sup.rss \o sup.financial \o sup.twitter

\* the loop body after the suppliers returned (fetched: results by then)
StoreOutcome(fetched, profile, sup) ==
    IF sup.raises
    THEN ProfileRaised(fetched, profile)
    ELSE [fetched EXCEPT
            !.profile_results =
                DictSet(@, lstrip_at(profile), ProfileEntry(AllContent(sup)))]

\* one iteration of `for profile in profile_list`; sup is what the suppliers
\* of this profile return, and whether the scoring that follows raises
ProcessProfile(results, profile, sup) ==
    StoreOutcome([results EXCEPT !.data_sources_used = SourcesUsed(@, sup)],
                 profile, sup)

RECURSIVE ProfileLoop(_, _, _, _)
ProfileLoop(results, profile_list, supplied, i) ==
    IF i > Len(profile_list) THEN results
    ELSE ProfileLoop(ProcessProfile(results, profile_list[i], supplied[i]),
                     profile_list, supplied, i + 1)

\* results['overall_sentiment'] = _calculate_overall_sentiment(...)
WithOverall(results) ==
    [results EXCEPT
       !.overall_sentiment =
           _calculate_overall_sentiment(results.profile_results)]

\* results as analyze_profiles_sentiment holds it before _cache_results
AnalysisResults(profile_list, symbols, supplied) ==
    WithOverall(
        ProfileLoop([ profiles_analyzed |-> Len(profile_list),
                      symbols_filter |-> symbols,
                      profile_results |-> <<>>,
                      overall_sentiment |-> <<>>,
                      data_sources_used |-> <<>>,
                      errors |-> <<>> ],
                    profile_list, supplied, 1))

\* ------------------------------------------------------------ _cache_results
\* f"sentiment_{'_'.join(profile_list[:3])}_{now:%Y%m%d_%H}.json", as its
\* parts
cache_file(profile_list, hour) ==
    [ prefix |-> "sentiment",
      profiles |-> SubSeq(profile_list, 1, Min(3, Len(profile_list))),
      stamp |-> hour ]

\* open(cache_file, 'w'); json.dump(results, f): the file is created or
\* replaced, with the current time as its mtime
WriteFile(dir, name, payload, time) ==
    [f \in DOMAIN dir \cup {name} |->
        IF f = name THEN [payload |-> payload, mtime |-> time] ELSE dir[f]]

\* -------------------------------------- the assessments of SentimentAgent
\* Of the insights and of the market assessment the model keeps the keys
\* that depend on the volume of what was analysed, and what they are
\* computed from: sentiment_strength, key_themes, insight_error;
\* market_mood and catalyst_potential.

\* overall.get('total_posts', 0) with the value of 'total_content'
total_posts_from_total_content(overall) == Get(overall, "total_content", 0)

\* overall.get('total_posts', 0)
total_posts(overall) == Get(overall, "total_posts", 0)

\* "Assess sentiment strength"
sentiment_strength(overall) ==
    IF Abs(Get(overall, "score", 0)) > 600 THEN "strong"
    ELSE IF Abs(Get(overall, "score", 0)) > 300 THEN "moderate"
    ELSE "weak"

\* the profiles whose average_sentiment has the label
LabelCount(profile_results, label) ==
    Cardinality({ k \in DOMAIN profile_results :
                    /\ "average_sentiment" \in DOMAIN profile_results[k].data
                    /\ profile_results[k].data.average_sentiment.sentiment
                          = label })

\* the themes of the activity level
EngagementThemes(posts) ==
    IF posts > 50 THEN {"high_engagement"}
    ELSE IF posts < 20 THEN {"low_engagement"}
    ELSE {}

_extract_key_themes(sentiment_results) ==
    LET overall == sentiment_results.overall_sentiment
        positive_count ==
            LabelCount(sentiment_results.profile_results, "positive")
        negative_count ==
            LabelCount(sentiment_results.profile_results, "negative")
    IN  (IF overall.sentiment = "positive"
         THEN {"bullish_outlook", "growth_optimism"}
         ELSE IF overall.sentiment = "negative"
         THEN {"bearish_concerns", "risk_aversion"}
         ELSE {})
        \cup
        (IF positive_count > negative_count * 2
         THEN {"strong_consensus_bullish"}
         ELSE IF negative_count > positive_count * 2
         THEN {"strong_consensus_bearish"}
         ELSE {"mixed_sentiment_signals"})
        \cup EngagementThemes(total_posts(overall))

\* With an empty profile_results the name valid_profiles is not bound when
\* `if valid_profiles and ...` reads it: the exception is caught, after
\* sentiment_strength and before key_themes were set.
_generate_sentiment_insights(sentiment_results) ==
    IF sentiment_results.profile_results = <<>>
    THEN [ sentiment_strength |->
               sentiment_strength(sentiment_results.overall_sentiment),
           key_themes |-> {},
           insight_error |-> "exception" ]
    ELSE [ sentiment_strength |->
               sentiment_strength(sentiment_results.overall_sentiment),
           key_themes |-> _extract_key_themes(sentiment_results) ]

\* "Assess catalyst potential"
catalyst_potential(profiles_analyzed, posts, strength) ==
    IF profiles_analyzed > 8 /\ posts > 40 /\ strength = "strong"
    THEN "high"
    ELSE IF profiles_analyzed > 5 /\ posts > 20 THEN "medium"
    ELSE "low"

_assess_market_implications(sentiment_results, insights) ==
    LET overall == sentiment_results.overall_sentiment
    IN  [ market_mood |->
              IF Get(overall, "score", 0) > 300 THEN "optimistic"
              ELSE IF Get(overall, "score", 0) < 0 - 300 THEN "pessimistic"
              ELSE "neutral",
          catalyst_potential |->
              catalyst_potential(Get(overall, "profiles_analyzed", 0),
                                 total_posts(overall),
                                 insights.sentiment_strength) ]

\* what run returns when analyze_profiles_sentiment returned
RunResults(profile_list, symbols, sentiment_results) ==
    [ status |-> "success",
      profiles_analyzed |-> profile_list,
      symbols_filter |-> symbols,
      raw_sentiment |-> sentiment_results,
      insights |-> _generate_sentiment_insights(sentiment_results),
      market_assessment |->
          _assess_market_implications(
              sentiment_results,
              _generate_sentiment_insights(sentiment_results)) ]

\* ------------------------------------------------------- SentimentAgent.run
\* One run of the agent: analyze_profiles_sentiment up to its return or to
\* the exception of _cache_results (io_ok = FALSE: open() fails), and the
\* try/except of run around it.  results is what the analysis computed,
\* file the name of its cache file.
RunOutcome(profile_list, symbols, supplied, io_ok, results, file) ==
    /\ request' = [ profile_list |-> profile_list,
                    symbols |-> symbols,
                    supplied |-> supplied,
                    io_ok |-> io_ok ]
    /\ cache_dir' = IF io_ok
                    THEN WriteFile(cache_dir, file, results, now)
                    ELSE cache_dir
    /\ agent_result' =
           IF io_ok
           THEN RunResults(profile_list, symbols, results)
           ELSE [ status |-> "error",
                  profiles_analyzed |-> profile_list,
                  symbols_filter |-> symbols,
                  error |-> "exception" ]
    /\ call_log' = Append(call_log,
           [ profile_list |-> profile_list,
             symbols |-> symbols,
             time |-> now,
             file |-> file,
             \* the profiles whose suppliers were called in this run
             fetched |-> Len(profile_list),
             failed |-> Len(results.errors),
             wrote |-> io_ok ])
    /\ UNCHANGED <<scoreVars, now>>
    /\ UNCHANGED secVars

AgentRun(profile_list, symbols, supplied, io_ok) ==
    RunOutcome(profile_list, symbols, supplied, io_ok,
               AnalysisResults(profile_list, symbols, supplied),
               cache_file(profile_list, now))

\* ------------------------------------------------------------------ sec_tool
\* the hours for which a cache file of fetch_recent_sec_filings and one of
\* fetch_historical_sec_filings is used
RecentCacheHours == 1
HistoricalCacheHours == 24

\* f"{days}"
DaysText(days) ==
    IF days = 1 THEN "1" ELSE IF days = 7 THEN "7" ELSE "30"

\* cache_dir / f"{symbol}_recent_{days}d.json", as its parts
recent_cache_file(symbol, days) ==
    <<symbol, "_recent_", DaysText(days), "d.json">>

\* cache_dir / f"{symbol}_historical_{start_date}_{end_date}.json"
historical_cache_file(symbol, start_date, end_date) ==
    <<symbol, "_historical_", start_date, "_", end_date, ".json">>

\* _is_cache_fresh with a file of exactly `hours` taken as fresh
_is_cache_fresh_inclusive(dir, file, hours, time) ==
    file \in DOMAIN dir /\ time - dir[file].mtime <= hours

\* cache_file.exists() and _is_cache_fresh(cache_file, hours): the age of
\* the file by its mtime is below `hours`
_is_cache_fresh(dir, file, hours, time) ==
    file \in DOMAIN dir /\ time - dir[file].mtime < hours

\* A Python value of a filing is [type, text]; json.dump(..., default=str)
\* writes a value that JSON has no form for as the string str(value).
JsonTypes == {"str", "int"}

json_value(v) ==
    IF v.type \in JsonTypes THEN v ELSE [type |-> "str", text |-> v.text]

json_filing(f) ==
    [accession_number |-> f.accession_number, cik |-> json_value(f.cik)]

\* the text json.dump writes for an entry, as the values the text holds
json_dump(entry) ==
    [json |-> [entry EXCEPT
                 !.filings = [i \in 1..Len(@) |-> json_filing(@[i])]]]

\* the file between open(cache_file, 'w') and the end of json.dump
Truncated == [empty |-> TRUE]

\* json.load raises on a file that holds no document
Loadable(content) == "json" \in DOMAIN content

\* json.load(f): the values the text holds
json_load(content) == content.json

\* results[symbol] after the filings were read
RecentEntry(symbol, recent_filings, time) ==
    [ symbol |-> symbol,
      filings_count |-> Len(recent_filings),
      filings |-> recent_filings,
      last_updated |-> time ]

HistoricalEntry(symbol, start_date, end_date, historical_filings, time) ==
    [ symbol |-> symbol,
      date_range |-> <<start_date, " to ", end_date>>,
      filings_count |-> Len(historical_filings),
      filings |-> historical_filings,
      last_updated |-> time ]

\* results[symbol] of an iteration that raised
SecErrorEntry(symbol) ==
    [ symbol |-> symbol,
      error |-> "exception",
      filings_count |-> 0,
      filings |-> <<>> ]

\* the file of the cache as an iteration finds or leaves it
FileOf(dir, file) == IF file \in DOMAIN dir THEN dir[file] ELSE None

\* An iteration of the loop ends: st = [dir, results, steps] is the state of
\* the call before it, dir the cache after it, result what it stored in
\* results[symbol]; invoked says whether Company / get_filings were called.
\* steps records what the iteration saw and did.
SecStore(st, dir, symbol, fn, file, time, invoked, result) ==
    [ dir |-> dir,
      results |-> DictSet(st.results, symbol, result),
      steps |-> Append(st.steps,
                  [ symbol |-> symbol,
                    fn |-> fn,
                    file |-> file,
                    time |-> time,
                    before |-> FileOf(st.dir, file),
                    invoked |-> invoked,
                    result |-> result,
                    after |-> FileOf(dir, file) ]) ]

\* The body of `for symbol in symbols`, the same in both fetchers: the cache
\* file is used when fresh; otherwise the filings are fetched (up: what
\* Company / get_filings and the date filter give, or that they raise),
\* entry is built from them and written to the file.  An exception leaves
\* the error entry in results and the cache as it was.
SecIteration(st, symbol, fn, file, hours, up, entry, time) ==
    IF _is_cache_fresh(st.dir, file, hours, time)
    THEN IF Loadable(st.dir[file].payload)
         THEN SecStore(st, st.dir, symbol, fn, file, time, FALSE,
                       json_load(st.dir[file].payload))
         ELSE SecStore(st, st.dir, symbol, fn, file, time, FALSE,
                       SecErrorEntry(symbol))
    ELSE IF up.raises
    THEN SecStore(st, st.dir, symbol, fn, file, time, TRUE,
                  SecErrorEntry(symbol))
    ELSE SecStore(st, WriteFile(st.dir, file, json_dump(entry), time),
                  symbol, fn, file, time, TRUE, entry)

\* fetch_recent_sec_filings(symbols, days): the loop from symbols[i] on
RECURSIVE RecentLoop(_, _, _, _, _, _)
RecentLoop(st, symbols, days, ups, time, i) ==
    IF i > Len(symbols) THEN st
    ELSE RecentLoop(
            SecIteration(st, symbols[i], "recent",
                         recent_cache_file(symbols[i], days),
                         RecentCacheHours, ups[i],
                         RecentEntry(symbols[i], ups[i].filings, time),
                         time),
            symbols, days, ups, time, i + 1)

\* fetch_historical_sec_filings(symbols, start_date, end_date)
RECURSIVE HistoricalLoop(_, _, _, _, _, _, _)
HistoricalLoop(st, symbols, start_date, end_date, ups, time, i) ==
    IF i > Len(symbols) THEN st
    ELSE HistoricalLoop(
            SecIteration(st, symbols[i], "historical",
                         historical_cache_file(symbols[i], start_date,
                                               end_date),
                         HistoricalCacheHours, ups[i],
                         HistoricalEntry(symbols[i], start_date, end_date,
                                         ups[i].filings, time),
                         time),
            symbols, start_date, end_date, ups, time, i + 1)

\* the state of a call at its start
SecStart == [dir |-> sec_cache, results |-> <<>>, steps |-> <<>>]

\* a fetcher returns results: st is the state of the call at its end
SecReturn(fn, symbols, st) ==
    /\ sec_cache' = st.dir
    /\ sec_call' = [ n |-> sec_call.n + 1,
                     fn |-> fn,
                     symbols |-> symbols,
                     time |-> now,
                     results |-> st.results,
                     steps |-> st.steps ]
    /\ UNCHANGED <<scoreVars, agentVars, now, callers>>

\* ---------------------------------------------------------- what is given
\* most profiles in a list
MaxProfiles == 2
\* most runs in a row, and the last hour of the clock
MaxCalls == 2
MaxTime == 3
\* the callers of the fetchers that run side by side
MaxCallers == 2

Callers == 1..MaxCallers

Profiles == {"alice", "@alice", "bob"}

ProfileLists == UNION {[1..k -> Profiles] : k \in 0..MaxProfiles}

SymbolLists == {<<>>, <<"TSLA">>}

\* _get_news_mentions: nothing, an article of the news API, or a headline of
\* a free feed (source f'rss_{host}') that is too short to score
NewsChoices ==
    { <<>>,
      <<Content(<<"bullish", "stock">>, "news_api")>>,
      <<Content(<<"buy">>, "rss_feeds.finance.yahoo.com")>> }

\* _get_rss_mentions
RssChoices ==
    { <<>>, <<Content(<<"crash", "now">>, "rss_financial")>> }

\* _get_financial_sentiment: the market contexts (random.sample of two of
\* the profile and symbol contexts), or nothing when
\* _get_market_sentiment_indicators caught an exception
FinancialChoices(symbols) ==
    { <<>>,
      << Content(<<"CTX_CAUTIOUS">>, "market_sentiment"),
         Content(<<"CTX_DISCUSSION">>, "market_sentiment") >> }
    \cup (IF symbols = <<>> THEN {}
          ELSE { << Content(<<"CTX_TSLA">>, "market_sentiment"),
                    Content(<<"CTX_CAUTIOUS">>, "market_sentiment") >> })

\* what the suppliers of one profile can give, and the case of an exception
\* raised in the loop body after they returned
Supplies(symbols) ==
    { [news |-> n, rss |-> r, financial |-> f, twitter |-> <<>>,
       raises |-> FALSE] :
        n \in NewsChoices, r \in RssChoices, f \in FinancialChoices(symbols) }
    \cup
    { [news |-> <<Content(<<"bullish", "stock">>, "news_api")>>,
       rss |-> <<>>, financial |-> <<>>,
       twitter |-> <<Content(<<"MOON", "!">>, "twitter_search")>>,
       raises |-> b] : b \in BOOLEAN }

\* ------------------------------------------------------------------ actions
Init ==
    /\ call = "idle"
    /\ text = <<>>
    /\ methods = <<>>
    /\ item = None
    /\ request = [profile_list |-> <<>>, symbols |-> <<>>,
                  supplied |-> <<>>, io_ok |-> TRUE]
    /\ agent_result = [status |-> "none"]
    /\ cache_dir = <<>>
    /\ call_log = <<>>
    /\ now = 0
    /\ sec_cache = <<>>
    /\ sec_call = [n |-> 0, fn |-> "none", symbols |-> <<>>, time |-> 0,
                   results |-> <<>>, steps |-> <<>>]
    /\ callers = [p \in Callers |-> [pc |-> "idle"]]
    /\ direct = <<>>
    /\ crew = [pc |-> "idle", inputs |-> None, valid |-> FALSE,
               started |-> <<>>,
               returned |-> <<>>, result |-> [status |-> "none"]]

Fresh == call = "idle" /\ call_log = <<>>

\* _analyze_advanced_sentiment(t)
CallAdvanced ==
    /\ Fresh
    /\ \E t \in TextsUpTo(MaxWords) :
          /\ call' = "advanced"
          /\ text' = t
          /\ methods' =
                IF _analyze_advanced_sentiment(t) = None THEN <<>>
                ELSE << _analyze_financial_keywords(_clean_text(t)),
                        _analyze_sentiment_patterns(_clean_text(t)),
                        _analyze_context_sentiment(_clean_text(t)) >>
          /\ item' = _analyze_advanced_sentiment(t)
    /\ UNCHANGED <<request, agent_result, cache_dir, call_log, now, direct>>
    /\ UNCHANGED crew
    /\ UNCHANGED secVars

\* the three scorers and the combiner, called on a text as it is
CallScorers ==
    /\ Fresh
    /\ \E t \in TextsUpTo(MaxWords) :
          /\ call' = "direct"
          /\ text' = t
          /\ methods' = << _analyze_financial_keywords(t),
                           _analyze_sentiment_patterns(t),
                           _analyze_context_sentiment(t) >>
          /\ item' = _combine_sentiment_scores(MethodScores(t), t)
    /\ UNCHANGED <<request, agent_result, cache_dir, call_log, now, direct>>
    /\ UNCHANGED crew
    /\ UNCHANGED secVars

\* SentimentAgent.run(profile_list, symbols)
Run ==
    /\ Fresh
    /\ \E pl \in ProfileLists, sy \in SymbolLists, ok \in BOOLEAN :
          \E supplied \in [1..Len(pl) -> Supplies(sy)] :
              AgentRun(pl, sy, supplied, ok)

Next == CallAdvanced \/ CallScorers \/ Run

Spec == Init /\ [][Next]_vars

\* ----------------------------------------------------- runs one after another
\* the profile lists and the supplies of the runs that follow one another
RunProfileLists == {<<"alice">>, <<"alice", "bob">>}

\* a profile without content, one with an article, one with an article and a
\* scoring that raises, and with symbols one with a market context of them
RunSupplies(symbols) ==
    { [news |-> <<>>, rss |-> <<>>, financial |-> <<>>, twitter |-> <<>>,
       raises |-> FALSE] }
    \cup
    { [news |-> <<Content(<<"bullish", "stock">>, "news_api")>>,
       rss |-> <<>>, financial |-> <<>>, twitter |-> <<>>,
       raises |-> b] : b \in BOOLEAN }
    \cup
    (IF symbols = <<>> THEN {}
     ELSE { [news |-> <<>>, rss |-> <<>>,
             financial |-> << Content(<<"CTX_TSLA">>, "market_sentiment"),
                              Content(<<"CTX_CAUTIOUS">>,
                                      "market_sentiment") >>,
             twitter |-> <<>>, raises |-> FALSE] })

\* SentimentAgent.run(profile_list, symbols), again and again
RunNext ==
    /\ Len(call_log) < MaxCalls
    /\ \E pl \in RunProfileLists, sy \in SymbolLists, ok \in BOOLEAN :
          \E supplied \in [1..Len(pl) -> RunSupplies(sy)] :
              AgentRun(pl, sy, supplied, ok)

\* an hour passes
Tick ==
    /\ now < MaxTime
    /\ now' = now + 1
    /\ UNCHANGED <<scoreVars, agentVars, secVars>>

NextCalls == RunNext \/ Tick

SpecCalls == Init /\ [][NextCalls]_vars

\* --------------------------------------------- the fetchers, call after call
\* most calls of the fetchers in a row
MaxSecCalls == 2

\* the hours at which the clock is read
SecHours == {0, 1, 2, 23, 24, 25}

\* a filing as _extract_filing_data gives it; the cik of the issuer is an
\* int or a number type that JSON has no form for
Filing(cik_type) ==
    [ accession_number |-> "0001-24-000001",
      cik |-> [type |-> cik_type, text |-> "1318605"] ]

\* what Company(symbol).get_filings(form="4") and the date filter give: an
\* exception, no filing in the window, or one
Upstream ==
    { [raises |-> TRUE, filings |-> <<>>],
      [raises |-> FALSE, filings |-> <<>>],
      [raises |-> FALSE, filings |-> <<Filing("numpy.int64")>>] }

RecentCalls ==
    { [symbols |-> <<"TSLA">>, days |-> 1],
      [symbols |-> <<"TSLA">>, days |-> 7],
      [symbols |-> <<"AAPL", "TSLA">>, days |-> 1],
      [symbols |-> <<"TSLA", "TSLA">>, days |-> 1] }

HistoricalCalls ==
    { [symbols |-> <<"TSLA">>,
       start_date |-> "2024-01-01", end_date |-> "2024-03-31"] }

\* fetch_recent_sec_filings(symbols, days)
FetchRecent ==
    /\ sec_call.n < MaxSecCalls
    /\ \E c \in RecentCalls :
          \E ups \in [1..Len(c.symbols) -> Upstream] :
              SecReturn("recent", c.symbols,
                        RecentLoop(SecStart, c.symbols, c.days, ups, now, 1))

\* fetch_historical_sec_filings(symbols, start_date, end_date)
FetchHistorical ==
    /\ sec_call.n < MaxSecCalls
    /\ \E c \in HistoricalCalls :
          \E ups \in [1..Len(c.symbols) -> Upstream] :
              SecReturn("historical", c.symbols,
                        HistoricalLoop(SecStart, c.symbols, c.start_date,
                                       c.end_date, ups, now, 1))

\* time passes, up to the next hour at which the clock is read
SecTick ==
    /\ \E h \in SecHours : h > now /\ now' = h
    /\ UNCHANGED <<scoreVars, agentVars, secVars>>

NextSec == FetchRecent \/ FetchHistorical \/ SecTick

SpecSec == Init /\ [][NextSec]_vars

\* ------------------------------------------- the fetchers, called side by side
\* Two callers (threads, or two processes on the same data/cache) run the
\* fetchers at once.  Nothing in the fetchers locks a file or a key, so the
\* steps of the callers interleave at every access to the cache and to the
\* upstream; a caller is at "check" (top of the loop body), "fetch" (inside
\* Company / get_filings), "open" (before open(cache_file, 'w')), "dump"
\* (the file opened, before json.dump has written it) or "done".
\* the calls of fetch_recent_sec_filings that run side by side
ConcRecentCalls ==
    { [symbols |-> <<"TSLA">>, days |-> 1],
      [symbols |-> <<"AAPL", "TSLA">>, days |-> 1] }

CallerSymbol(c) == c.symbols[c.i]

CallerFile(c) ==
    IF c.fn = "recent"
    THEN recent_cache_file(CallerSymbol(c), c.args.days)
    ELSE historical_cache_file(CallerSymbol(c), c.args.start_date,
                               c.args.end_date)

CallerHours(c) ==
    IF c.fn = "recent" THEN RecentCacheHours ELSE HistoricalCacheHours

CallerEntry(c, filings, time) ==
    IF c.fn = "recent"
    THEN RecentEntry(CallerSymbol(c), filings, time)
    ELSE HistoricalEntry(CallerSymbol(c), c.args.start_date, c.args.end_date,
                         filings, time)

\* the call of a fetcher starts
Called(fn, c) ==
    [ pc |-> IF c.symbols = <<>> THEN "done" ELSE "check",
      fn |-> fn,
      symbols |-> c.symbols,
      args |-> c,
      i |-> 1,
      results |-> <<>>,
      entry |-> None ]

\* results[symbol] is set and the loop goes on to the next symbol
Advance(c, result) ==
    [c EXCEPT !.results = DictSet(@, CallerSymbol(c), result),
              !.entry = None,
              !.i = @ + 1,
              !.pc = IF c.i + 1 > Len(c.symbols) THEN "done" ELSE "check"]

ConcCallRecent ==
    /\ \E p \in Callers, c \in ConcRecentCalls :
          /\ callers[p].pc = "idle"
          /\ callers' = [callers EXCEPT ![p] = Called("recent", c)]
    /\ UNCHANGED <<scoreVars, agentVars, now, sec_cache, sec_call>>

ConcCallHistorical ==
    /\ \E p \in Callers, c \in HistoricalCalls :
          /\ callers[p].pc = "idle"
          /\ callers' = [callers EXCEPT ![p] = Called("historical", c)]
    /\ UNCHANGED <<scoreVars, agentVars, now, sec_cache, sec_call>>

\* the check of the cache file, and the read of it when it is fresh
CheckOutcome(c, file) ==
    IF _is_cache_fresh(sec_cache, file, CallerHours(c), now)
    THEN IF Loadable(sec_cache[file].payload)
         THEN Advance(c, json_load(sec_cache[file].payload))
         ELSE Advance(c, SecErrorEntry(CallerSymbol(c)))
    ELSE [c EXCEPT !.pc = "fetch"]

ConcCheck ==
    /\ \E p \in Callers :
          /\ callers[p].pc = "check"
          /\ callers' = [callers EXCEPT
                           ![p] = CheckOutcome(callers[p],
                                               CallerFile(callers[p]))]
    /\ UNCHANGED <<scoreVars, agentVars, now, sec_cache, sec_call>>

\* Company / get_filings return or raise
FetchOutcome(c, up) ==
    IF up.raises
    THEN Advance(c, SecErrorEntry(CallerSymbol(c)))
    ELSE [c EXCEPT !.pc = "open",
                   !.entry = CallerEntry(c, up.filings, now)]

ConcFetch ==
    /\ \E p \in Callers, up \in Upstream :
          /\ callers[p].pc = "fetch"
          /\ callers' = [callers EXCEPT ![p] = FetchOutcome(callers[p], up)]
    /\ UNCHANGED <<scoreVars, agentVars, now, sec_cache, sec_call>>

\* open(cache_file, 'w') empties the file
ConcOpen ==
    /\ \E p \in Callers :
          /\ callers[p].pc = "open"
          /\ sec_cache' = WriteFile(sec_cache, CallerFile(callers[p]),
                                    Truncated, now)
          /\ callers' = [callers EXCEPT ![p].pc = "dump"]
    /\ UNCHANGED <<scoreVars, agentVars, now, sec_call>>

\* json.dump(results[symbol], f, ...) and the end of the with block
ConcDump ==
    /\ \E p \in Callers :
          /\ callers[p].pc = "dump"
          /\ sec_cache' = WriteFile(sec_cache, CallerFile(callers[p]),
                                    json_dump(callers[p].entry), now)
          /\ callers' = [callers EXCEPT
                           ![p] = Advance(callers[p], callers[p].entry)]
    /\ UNCHANGED <<scoreVars, agentVars, now, sec_call>>

NextConc ==
    \/ ConcCallRecent \/ ConcCallHistorical
    \/ ConcCheck \/ ConcFetch \/ ConcOpen \/ ConcDump
    \/ SecTick

SpecSecConc == Init /\ [][NextConc]_vars


\* ------------------------------------------------- the combiner, on its own
\* longest sequence of method results given to the combiner
MaxScores == 3

\* a method result {score, sentiment, confidence, method} as a caller of the
\* combiner may give it, labelled by the rule of the scorers
MethodScore(score, confidence) ==
    [ score |-> score,
      sentiment |-> LabelOf(score, 1, 100),
      confidence |-> confidence,
      method |-> "given" ]

\* scores from -1.0 to 1.0 and confidences from 0 to 1.0
GivenScores ==
    { MethodScore(s, c) : s \in {-1000, -200, 500, 1000},
                          c \in {0, 400, 1000} }

RECURSIVE SeqsUpTo(_, _)
SeqsUpTo(S, n) ==
    IF n = 0 THEN {<<>>}
    ELSE SeqsUpTo(S, n - 1)
         \cup {Append(q, x) : q \in {r \in SeqsUpTo(S, n - 1) : Len(r) = n - 1},
                              x \in S}

\* _combine_sentiment_scores(sentiment_scores, t)
CallCombine ==
    /\ Fresh
    /\ \E sentiment_scores \in SeqsUpTo(GivenScores, MaxScores),
          t \in TextsUpTo(1) :
          /\ call' = "combine"
          /\ text' = t
          /\ methods' = sentiment_scores
          /\ item' = _combine_sentiment_scores(sentiment_scores, t)
    /\ UNCHANGED <<request, agent_result, cache_dir, call_log, now, direct>>
    /\ UNCHANGED crew
    /\ UNCHANGED secVars

NextCombine == CallCombine

SpecCombine == Init /\ [][NextCombine]_vars

\* --------------------------------- _calculate_weighted_sentiment, on its own
\* longest list of items given to the aggregator, and the calls in a row
MaxItems == 3
MaxDirect == 2

\* the hosts of the feeds that _get_free_news_mentions reads (rss_feeds[:2])
FeedHosts == {"feeds.finance.yahoo.com", "www.marketwatch.com"}

\* f'rss_{feed_url.split("//")[1].split("/")[0]}'
free_news_source(host) == "rss_" \o host

\* the source labels that the suppliers give to what they read from an RSS
\* feed: _get_rss_mentions and _get_free_news_mentions
EmittedRssSources ==
    {"rss_financial"} \cup {free_news_source(h) : h \in FeedHosts}

\* an item as analyze_profiles_sentiment gives it to the aggregator
ItemSentiment(score, confidence, source) ==
    [ sentiment |-> LabelOf(score, 1, 100),
      score |-> score,
      confidence |-> confidence,
      source |-> source ]

\* the item with the score 1.0 and the largest weight an item can have: the
\* source of weight 1.0 and the largest confidence of the combiner
TopItem == ItemSentiment(1000, 950, "news_api")

\* one item per source of the table, one of a source that is not in it, one
\* of a feed of _get_free_news_mentions, one without a source, and one of
\* confidence 0
GivenItems ==
    { ItemSentiment(600, 800, "news_api"),
      ItemSentiment(-200, 400, "blog"),
      TopItem,
      ItemSentiment(1000, 0, "rss_financial"),
      ItemSentiment(-1000, 500, free_news_source("feeds.finance.yahoo.com")),
      ItemSentiment(0, 900, "alpha_vantage_news"),
      ItemSentiment(-500, 300, "twitter_search"),
      ItemSentiment(200, 700, "market_sentiment"),
      ItemSentiment(100, 600, "twitter_alternative"),
      [sentiment |-> "negative", score |-> -1000, confidence |-> 950] }

\* the source_weight that the loop resolves for each item
ResolvedWeights(sentiments) ==
    [ i \in 1..Len(sentiments) |->
        source_weight(Get(sentiments[i], "source", "unknown")) ]

\* _calculate_weighted_sentiment(sentiments)
CallWeighted ==
    /\ Len(direct) < MaxDirect
    /\ \E sentiments \in SeqsUpTo(GivenItems, MaxItems) :
          direct' = Append(direct,
                      [ fn |-> "_calculate_weighted_sentiment",
                        input |-> sentiments,
                        weights |-> ResolvedWeights(sentiments),
                        result |-> _calculate_weighted_sentiment(sentiments) ])
    /\ UNCHANGED <<call, text, methods, item, crew>>
    /\ UNCHANGED <<agentVars, now, secVars>>

NextSubject == CallWeighted

SpecSubject == Init /\ [][NextSubject]_vars

\* ---------------------------------- _calculate_overall_sentiment, on its own
\* most subjects in the profile_results given to the batch aggregator
MaxSubjects == 3

\* the entry of a subject with scored items, as analyze_profiles_sentiment
\* stores it (the keys that _calculate_overall_sentiment reads)
SubjectEntry(content_count, score, confidence) ==
    [ content_count |-> content_count,
      average_sentiment |->
          [ score |-> score,
            sentiment |-> LabelOf(score, 1, 100),
            confidence |-> confidence,
            sample_size |-> content_count,
            weighted_analysis |-> TRUE ] ]

\* the two subjects of the scenario, the two error entries of
\* analyze_profiles_sentiment, a subject with many items, one of confidence
\* 0, and the result of an empty list of items with the count 0
GivenEntries ==
    { SubjectEntry(10, 500, 700),
      SubjectEntry(2, -500, 500),
      [ error |-> "No content sources available",
        content_count |-> 0, sentiment_score |-> 0 ],
      [ error |-> "Failed to analyze sentiment from available content",
        content_count |-> 1, sentiment_score |-> 0 ],
      SubjectEntry(50, 100, 900),
      SubjectEntry(10, 1000, 0),
      [ content_count |-> 0,
        average_sentiment |-> _calculate_weighted_sentiment(<<>>) ] }

SubjectNames == <<"alice", "bob", "carol">>

\* the dict with the entries under the names, in order
AsProfileResults(entries) ==
    [i \in 1..Len(entries) |->
        [profile |-> SubjectNames[i], data |-> entries[i]]]

\* _calculate_overall_sentiment(profile_results)
CallOverall ==
    /\ Len(direct) < MaxDirect
    /\ \E entries \in SeqsUpTo(GivenEntries, MaxSubjects) :
          direct' = Append(direct,
                      [ fn |-> "_calculate_overall_sentiment",
                        input |-> AsProfileResults(entries),
                        result |-> _calculate_overall_sentiment(
                                       AsProfileResults(entries)) ])
    /\ UNCHANGED <<call, text, methods, item, crew>>
    /\ UNCHANGED <<agentVars, now, secVars>>

NextBatch == CallOverall

SpecBatch == Init /\ [][NextBatch]_vars

\* -------------------------- SentimentAgent.run on the results of a large batch
\* most subjects in the results that the analysis gives to the agent
MaxBatch == 9

BatchNames == <<"p1", "p2", "p3", "p4", "p5", "p6", "p7", "p8", "p9", "p10">>

\* a subject of ten items strongly positive, one of two items negative, and
\* one without content
BatchEntries ==
    { SubjectEntry(10, 800, 700),
      SubjectEntry(2, -500, 500),
      [ error |-> "No content sources available",
        content_count |-> 0, sentiment_score |-> 0 ] }

\* what analyze_profiles_sentiment returns for the profiles with these
\* entries
BatchAnalysis(entries) ==
    WithOverall([ profiles_analyzed |-> Len(entries),
                  symbols_filter |-> <<>>,
                  profile_results |->
                      [i \in 1..Len(entries) |->
                          [profile |-> BatchNames[i], data |-> entries[i]]],
                  overall_sentiment |-> <<>>,
                  data_sources_used |-> <<>>,
                  errors |-> <<>> ])

\* SentimentAgent.run(profile_list) where analyze_profiles_sentiment
\* returns the results of a batch
RunOnBatch ==
    /\ direct = <<>>
    /\ \E entries \in SeqsUpTo(BatchEntries, MaxBatch) :
          direct' = << [ fn |-> "SentimentAgent.run",
                         input |-> BatchAnalysis(entries),
                         result |->
                             RunResults(SubSeq(BatchNames, 1, Len(entries)),
                                        <<>>, BatchAnalysis(entries)) ] >>
    /\ UNCHANGED <<call, text, methods, item, crew>>
    /\ UNCHANGED <<agentVars, now, secVars>>

NextAssess == RunOnBatch

SpecAssess == Init /\ [][NextAssess]_vars

\* ------------------------------------------------ CrowdWisdomCrew.kickoff
\* The inputs of kickoff, as far as _validate_inputs looks at them: which
\* keys are there, whether symbols and x_creators are lists and how long,
\* whether the dates parse as %Y-%m-%d and which day they name (counted
\* from today, the past negative), and what days holds.

MaxAgentCalls == 4

RequiredFields == <<"symbols", "x_creators", "start_date", "end_date">>

RequiredSet == {RequiredFields[i] : i \in 1..Len(RequiredFields)}

Today == 0

TwoYears == 365 * 2

ListValue(n) == [is_list |-> TRUE, len |-> n]

NotAList == [is_list |-> FALSE, len |-> 0]

DateValue(day) == [parses |-> TRUE, day |-> day]

NotADate == [parses |-> FALSE, day |-> 0]

DaysValue(n) == [is_int |-> TRUE, value |-> n]

NotAnInt == [is_int |-> FALSE, value |-> 0]

GivenInputs ==
    [present : {RequiredSet, RequiredSet \cup {"days"},
                RequiredSet \ {"symbols"}, RequiredSet \ {"end_date"}},
     symbols : {ListValue(1), ListValue(0), NotAList},
     x_creators : {ListValue(1), ListValue(0)},
     start_date : {DateValue(-10), DateValue(-800), NotADate},
     end_date : {DateValue(-5), DateValue(-10), DateValue(3)},
     days : {DaysValue(1), DaysValue(31), NotAnInt}]

Passed == [valid |-> TRUE, error |-> "None"]

Rejected(error) == [valid |-> FALSE, error |-> error]

FirstMissing(inputs) ==
    LET missing == {i \in 1..Len(RequiredFields) :
                        RequiredFields[i] \notin inputs.present}
    IN  IF missing = {} THEN 0
        ELSE CHOOSE i \in missing : \A j \in missing : i <= j

\* datetime.now() carries the time of day, so a date of today's is not
\* after now, and the date two years before today is before now less two
\* years.
_validate_inputs(inputs) ==
    IF FirstMissing(inputs) # 0
    THEN Rejected("Missing required field")
    ELSE IF ~inputs.symbols.is_list \/ inputs.symbols.len = 0
    THEN Rejected("Symbols must be a non-empty list")
    ELSE IF ~inputs.x_creators.is_list \/ inputs.x_creators.len = 0
    THEN Rejected("X creators must be a non-empty list")
    ELSE IF ~inputs.start_date.parses \/ ~inputs.end_date.parses
    THEN Rejected("Invalid date format (use YYYY-MM-DD)")
    ELSE IF inputs.start_date.day >= inputs.end_date.day
    THEN Rejected("Start date must be before end date")
    ELSE IF inputs.end_date.day > Today
    THEN Rejected("End date cannot be in the future")
    ELSE IF inputs.start_date.day <= Today - TwoYears
    THEN Rejected("Start date cannot be more than 2 years ago")
    ELSE IF /\ "days" \in inputs.present
            /\ \/ ~inputs.days.is_int
               \/ inputs.days.value < 1
               \/ inputs.days.value > 30
    THEN Rejected("Days must be an integer between 1 and 30")
    ELSE Passed

\* The agent calls of the body of kickoff, in the order of its statements.
AgentCalls ==
    <<"sec_agent", "history_agent", "sentiment_agent", "report_agent">>

\* The body with the sentiment call written before the history call.
NextAgentCallSentimentFirst(n) ==
    <<"sec_agent", "sentiment_agent", "history_agent", "report_agent">>[n + 1]

\* The call the body makes next, when n calls have returned.
NextAgentCall(n) == AgentCalls[n + 1]

AgentStatuses == {"success", "error"}

\* _compile_results: 'success', or 'partial_success' when an agent's
\* result says 'error'; an exception inside it is caught and leaves the
\* status as it was.
_compile_results(returned, raises) ==
    [status |-> IF /\ ~raises
                   /\ \E i \in 1..Len(returned) : returned[i].status = "error"
                THEN "partial_success" ELSE "success",
     compilation_error |-> raises]

Kickoff ==
    /\ crew.pc = "idle"
    /\ direct = <<>>
    /\ Fresh
    /\ \E inputs \in GivenInputs :
        LET validation_result == _validate_inputs(inputs)
        IN  crew' = IF ~validation_result.valid
                    THEN [crew EXCEPT !.pc = "done",
                              !.inputs = inputs, !.valid = FALSE,
                              !.result = [status |-> "error",
                                          error |-> validation_result.error]]
                    ELSE [crew EXCEPT !.pc = "call", !.inputs = inputs,
                              !.valid = TRUE]
    /\ UNCHANGED <<call, text, methods, item, direct>>
    /\ UNCHANGED <<agentVars, now, secVars>>

AgentStart ==
    /\ crew.pc = "call"
    /\ Len(crew.returned) < MaxAgentCalls
    /\ crew' = [crew EXCEPT !.pc = "in_agent",
                    !.started = Append(@, NextAgentCall(Len(crew.returned)))]
    /\ UNCHANGED <<call, text, methods, item, direct>>
    /\ UNCHANGED <<agentVars, now, secVars>>

AgentReturn ==
    /\ crew.pc = "in_agent"
    /\ \E status \in AgentStatuses :
        LET returned == Append(crew.returned,
                               [agent |-> crew.started[Len(crew.started)],
                                status |-> status])
        IN  crew' = [crew EXCEPT !.returned = returned,
                         !.pc = IF Len(returned) = Len(AgentCalls)
                                THEN "compile" ELSE "call"]
    /\ UNCHANGED <<call, text, methods, item, direct>>
    /\ UNCHANGED <<agentVars, now, secVars>>

AgentRaise ==
    /\ crew.pc = "in_agent"
    /\ crew' = [crew EXCEPT !.pc = "done",
                    !.result = [status |-> "error", error |-> "exception"]]
    /\ UNCHANGED <<call, text, methods, item, direct>>
    /\ UNCHANGED <<agentVars, now, secVars>>

Compile ==
    /\ crew.pc = "compile"
    /\ \E raises \in BOOLEAN :
        crew' = [crew EXCEPT !.pc = "done",
                     !.result = _compile_results(crew.returned, raises)]
    /\ UNCHANGED <<call, text, methods, item, direct>>
    /\ UNCHANGED <<agentVars, now, secVars>>

NextCrew == Kickoff \/ AgentStart \/ AgentReturn \/ AgentRaise \/ Compile

SpecCrew == Init /\ [][NextCrew]_vars

\* ------------------------------------------------ Python float (binary64)
\* The sums and quotients of the three aggregators are Python floats: every
\* product, sum and quotient is rounded to the nearest number with
\* MantissaBits bits, ties to the even one.  A float is [sign, mant, exp] with
\* the value sign * mant * 2^exp, mant a natural number of exactly
\* MantissaBits bits, or zero.  Natural numbers of that size are sequences of
\* limbs of LimbBits bits, the least significant first, <<>> being zero.
\* Infinities, NaN, subnormal numbers and the sign of zero do not arise from
\* the values the aggregators are given and are left out.

MantissaBits == 53

LimbBits == 14

LimbBase == 2^LimbBits

Limb(a, i) == IF i <= Len(a) THEN a[i] ELSE 0

RECURSIVE Trim(_)
Trim(a) ==
    IF a # <<>> /\ a[Len(a)] = 0 THEN Trim(SubSeq(a, 1, Len(a) - 1)) ELSE a

RECURSIVE BigAddFrom(_, _, _, _)
BigAddFrom(a, b, i, carry) ==
    IF i > Len(a) /\ i > Len(b)
    THEN IF carry = 0 THEN <<>> ELSE <<carry>>
    ELSE <<(Limb(a, i) + Limb(b, i) + carry) % LimbBase>>
         \o BigAddFrom(a, b, i + 1,
                       (Limb(a, i) + Limb(b, i) + carry) \div LimbBase)

BigAdd(a, b) == BigAddFrom(a, b, 1, 0)

\* a - b for a >= b
RECURSIVE BigSubFrom(_, _, _, _)
BigSubFrom(a, b, i, borrow) ==
    IF i > Len(a) THEN <<>>
    ELSE <<(LimbBase + a[i] - Limb(b, i) - borrow) % LimbBase>>
         \o BigSubFrom(a, b, i + 1,
                       IF a[i] - Limb(b, i) - borrow < 0 THEN 1 ELSE 0)

BigSub(a, b) == Trim(BigSubFrom(a, b, 1, 0))

RECURSIVE BigCmpFrom(_, _, _)
BigCmpFrom(a, b, i) ==
    IF i = 0 THEN 0
    ELSE IF a[i] < b[i] THEN -1
    ELSE IF a[i] > b[i] THEN 1
    ELSE BigCmpFrom(a, b, i - 1)

\* -1, 0 or 1 as a is below, equal to or above b
BigCmp(a, b) ==
    IF Len(a) < Len(b) THEN -1
    ELSE IF Len(a) > Len(b) THEN 1
    ELSE BigCmpFrom(a, b, Len(a))

\* a * d + carry for d and carry below LimbBase
RECURSIVE BigScaleFrom(_, _, _, _)
BigScaleFrom(a, d, i, carry) ==
    IF i > Len(a)
    THEN IF carry = 0 THEN <<>> ELSE <<carry>>
    ELSE <<(a[i] * d + carry) % LimbBase>>
         \o BigScaleFrom(a, d, i + 1, (a[i] * d + carry) \div LimbBase)

BigScale(a, d) == Trim(BigScaleFrom(a, d, 1, 0))

\* a * LimbBase^k
ShiftLimbs(a, k) == IF a = <<>> THEN <<>> ELSE [i \in 1..k |-> 0] \o a

RECURSIVE BigMul(_, _)
BigMul(a, b) ==
    IF b = <<>> THEN <<>>
    ELSE BigAdd(BigScale(a, Head(b)), ShiftLimbs(BigMul(a, Tail(b)), 1))

\* a \div d for d below LimbBase, from the most significant limb down
RECURSIVE BigQuotFrom(_, _, _, _)
BigQuotFrom(a, d, i, rem) ==
    IF i = 0 THEN <<>>
    ELSE BigQuotFrom(a, d, i - 1, (rem * LimbBase + a[i]) % d)
         \o <<(rem * LimbBase + a[i]) \div d>>

BigQuot(a, d) == Trim(BigQuotFrom(a, d, Len(a), 0))

\* a * 2^k and a \div 2^k
BigShl(a, k) ==
    ShiftLimbs(BigScale(a, 2^(k % LimbBits)), k \div LimbBits)

BigShr(a, k) ==
    BigQuot(SubSeq(a, (k \div LimbBits) + 1, Len(a)), 2^(k % LimbBits))

RECURSIVE IntBits(_)
IntBits(n) == IF n = 0 THEN 0 ELSE 1 + IntBits(n \div 2)

\* the number of bits of a
BigBits(a) ==
    IF a = <<>> THEN 0 ELSE LimbBits * (Len(a) - 1) + IntBits(a[Len(a)])

BigOfInt(n) == Trim(<<n % LimbBase, n \div LimbBase>>)

BigToInt(a) == Limb(a, 1) + Limb(a, 2) * LimbBase

BigOdd(a) == Limb(a, 1) % 2 = 1

FZero == [sign |-> 1, mant |-> <<>>, exp |-> 0]

IsZero(x) == x.mant = <<>>

\* kept2 is the number cut to one bit more than is kept, inexact says that
\* something nonzero was cut off below it: the nearest number, ties to even
HalfEven(kept2, inexact) ==
    IF BigOdd(kept2) /\ (inexact \/ BigOdd(BigQuot(kept2, 2)))
    THEN BigAdd(BigQuot(kept2, 2), <<1>>)
    ELSE BigQuot(kept2, 2)

\* mant may have reached 2^MantissaBits by rounding up
Renormal(sign, mant, exp) ==
    IF BigBits(mant) > MantissaBits
    THEN [sign |-> sign, mant |-> BigQuot(mant, 2), exp |-> exp + 1]
    ELSE [sign |-> sign, mant |-> mant, exp |-> exp]

\* n has bits > MantissaBits + 1 bits
NearestOfWide(sign, n, exp, inexact, bits) ==
    Renormal(sign,
             HalfEven(BigShr(n, bits - MantissaBits - 1),
                      inexact \/ BigShl(BigShr(n, bits - MantissaBits - 1),
                                        bits - MantissaBits - 1) # n),
             exp + bits - MantissaBits)

NearestOfBits(sign, n, exp, inexact, bits) ==
    IF bits < MantissaBits + 2
    THEN NearestOfWide(sign, BigShl(n, MantissaBits + 2 - bits),
                       exp - (MantissaBits + 2 - bits), inexact,
                       MantissaBits + 2)
    ELSE NearestOfWide(sign, n, exp, inexact, bits)

\* the float nearest to sign * n * 2^exp for n > 0; inexact says that the
\* number meant is above n * 2^exp and below (n + 1) * 2^exp
Nearest(sign, n, exp, inexact) ==
    NearestOfBits(sign, n, exp, inexact, BigBits(n))

FNeg(x) == [x EXCEPT !.sign = -x.sign]

FMul(x, y) ==
    IF IsZero(x) \/ IsZero(y) THEN FZero
    ELSE Nearest(x.sign * y.sign, BigMul(x.mant, y.mant), x.exp + y.exp,
                 FALSE)

\* sign * (a - b) * 2^exp
NearestOfDifference(sign, a, b, exp, cmp) ==
    IF cmp = 0 THEN FZero
    ELSE IF cmp > 0 THEN Nearest(sign, BigSub(a, b), exp, FALSE)
    ELSE Nearest(-sign, BigSub(b, a), exp, FALSE)

\* a and b are the mantissas brought to the exponent exp
FAddAligned(x, y, a, b, exp) ==
    IF x.sign = y.sign THEN Nearest(x.sign, BigAdd(a, b), exp, FALSE)
    ELSE NearestOfDifference(x.sign, a, b, exp, BigCmp(a, b))

FAdd(x, y) ==
    IF IsZero(x) THEN y
    ELSE IF IsZero(y) THEN x
    ELSE FAddAligned(x, y, BigShl(x.mant, x.exp - Min(x.exp, y.exp)),
                     BigShl(y.mant, y.exp - Min(x.exp, y.exp)),
                     Min(x.exp, y.exp))

\* Long division, DigitBits bits of the quotient at a time.  r < d is the
\* remainder so far, q the digits found, k the number still to find.  The
\* next digit is estimated from the leading EstimateBits bits of d, which
\* gives it or one less.
DigitBits == 7

EstimateBits == 16

DigitEstimate(scaled, d, cut) ==
    BigToInt(BigShr(scaled, cut)) \div (BigToInt(BigShr(d, cut)) + 1)

RECURSIVE DivDigits(_, _, _, _)

\* rest is scaled less the estimate times d
DivDigitsWith(rest, d, q, k, estimate) ==
    IF BigCmp(rest, d) >= 0
    THEN DivDigits(BigSub(rest, d), d,
                   BigScaleFrom(q, 2^DigitBits, 1, estimate + 1), k - 1)
    ELSE DivDigits(rest, d, BigScaleFrom(q, 2^DigitBits, 1, estimate), k - 1)

DivDigitsOf(scaled, d, q, k, estimate) ==
    DivDigitsWith(BigSub(scaled, BigScale(d, estimate)), d, q, k, estimate)

DivDigits(r, d, q, k) ==
    IF k = 0 THEN [q |-> q, exact |-> r = <<>>]
    ELSE DivDigitsOf(BigScale(r, 2^DigitBits), d, q, k,
                     DigitEstimate(BigScale(r, 2^DigitBits), d,
                                   BigBits(d) - EstimateBits))

QuotientDigits == (MantissaBits + 2 + DigitBits - 1) \div DigitBits

\* x and y are not zero: their mantissas have the same number of bits, so
\* the quotient of the mantissas is below 2
BigDiv(a, b) ==
    IF BigCmp(a, b) >= 0
    THEN DivDigits(BigSub(a, b), b, <<1>>, QuotientDigits)
    ELSE DivDigits(a, b, <<>>, QuotientDigits)

NearestOfQuotient(sign, quotient, exp) ==
    Nearest(sign, quotient.q, exp, ~quotient.exact)

FDiv(x, y) ==
    IF IsZero(x) THEN FZero
    ELSE NearestOfQuotient(x.sign * y.sign, BigDiv(x.mant, y.mant),
                           x.exp - y.exp - QuotientDigits * DigitBits)

\* float(n) for an int n
FOfInt(n) ==
    IF n = 0 THEN FZero
    ELSE Nearest(IF n < 0 THEN -1 ELSE 1, BigOfInt(Abs(n)), 0, FALSE)

\* the float that the decimal num/den is read as
FOfDecimal(num, den) == FDiv(FOfInt(num), FOfInt(den))

\* x < y
FLess(x, y) ==
    /\ ~IsZero(FAdd(x, FNeg(y)))
    /\ FAdd(x, FNeg(y)).sign = -1

\* min(x, y)
FMin(x, y) == IF FLess(y, x) THEN y ELSE x

\* n is mant * 1000; cut is the number of bits below the unit
Round3OfScaled(sign, n, cut) ==
    sign * BigToInt(HalfEven(BigShr(n, cut - 1),
                             BigShl(BigShr(n, cut - 1), cut - 1) # n))

\* round(x, 3), in thousandths: the decimal of three places nearest to x,
\* ties to even
FRound3(x) ==
    IF IsZero(x) THEN 0
    ELSE Round3OfScaled(x.sign, BigScale(x.mant, 1000), -x.exp)

\* ----------------------------------------- the aggregators in float arithmetic
\* The three aggregators as the code computes them: the totals are summed in
\* the order of the input, every step rounded, and the label is taken from
\* the quotient before round(.., 3).  Scores and confidences are given in
\* thousandths and read as the floats of those decimals.

FloatOf(thousandths) == FOfDecimal(thousandths, 1000)

IsPositive(x) == ~IsZero(x) /\ x.sign = 1

\* 'positive' if score > 0.1, 'negative' if score < -0.1, else 'neutral'
FloatLabel(score) ==
    IF FLess(FOfDecimal(1, 10), score) THEN "positive"
    ELSE IF FLess(score, FOfDecimal(-1, 10)) THEN "negative"
    ELSE "neutral"

\* the loop of _combine_sentiment_scores over rs, from the totals given
RECURSIVE CombineLoop(_, _, _)
CombineLoop(rs, total_weighted_score, total_confidence) ==
    IF rs = <<>>
    THEN [ total_weighted_score |-> total_weighted_score,
           total_confidence |-> total_confidence ]
    ELSE CombineLoop(Tail(rs),
             FAdd(total_weighted_score,
                  FMul(FloatOf(Head(rs).score), FloatOf(Head(rs).confidence))),
             FAdd(total_confidence, FloatOf(Head(rs).confidence)))

CombinedOfScore(final_score, final_confidence, n, the_text) ==
    [ sentiment |-> FloatLabel(final_score),
      score |-> FRound3(final_score),
      confidence |-> FRound3(final_confidence),
      method |-> "combined",
      component_count |-> n,
      text_length |-> TextLen(the_text) ]

CombinedOfTotals(totals, n, the_text) ==
    IF IsPositive(totals.total_confidence)
    THEN CombinedOfScore(
             FDiv(totals.total_weighted_score, totals.total_confidence),
             FMin(FOfDecimal(95, 100),
                  FDiv(totals.total_confidence, FOfInt(n))),
             n, the_text)
    ELSE CombinedOfScore(FZero, FOfDecimal(1, 10), n, the_text)

_combine_sentiment_scores_float(sentiment_scores, the_text) ==
    IF sentiment_scores = <<>>
    THEN [sentiment |-> "neutral", score |-> 0, confidence |-> 100]
    ELSE CombinedOfTotals(CombineLoop(sentiment_scores, FZero, FZero),
                          Len(sentiment_scores), the_text)

\* final_weight = source_weight * confidence
final_weight_float(s) ==
    FMul(FOfDecimal(source_weight(Get(s, "source", "unknown")), 10),
         FloatOf(s.confidence))

\* the loop of _calculate_weighted_sentiment over ss, from the totals given
RECURSIVE WeightedLoop(_, _, _)
WeightedLoop(ss, total_weighted_score, total_weight) ==
    IF ss = <<>>
    THEN [ total_weighted_score |-> total_weighted_score,
           total_weight |-> total_weight ]
    ELSE WeightedLoop(Tail(ss),
             FAdd(total_weighted_score,
                  FMul(FloatOf(Head(ss).score), final_weight_float(Head(ss)))),
             FAdd(total_weight, final_weight_float(Head(ss))))

WeightedOfScore(avg_score, avg_confidence, n) ==
    [ score |-> FRound3(avg_score),
      sentiment |-> FloatLabel(avg_score),
      confidence |-> FRound3(avg_confidence),
      sample_size |-> n,
      weighted_analysis |-> TRUE ]

WeightedOfTotals(totals, n) ==
    IF IsPositive(totals.total_weight)
    THEN WeightedOfScore(
             FDiv(totals.total_weighted_score, totals.total_weight),
             FMin(FOfDecimal(9, 10), FDiv(totals.total_weight, FOfInt(n))),
             n)
    ELSE WeightedOfScore(FZero, FOfDecimal(1, 10), n)

_calculate_weighted_sentiment_float(sentiments) ==
    IF sentiments = <<>>
    THEN [score |-> 0, sentiment |-> "neutral", confidence |-> 0]
    ELSE WeightedOfTotals(WeightedLoop(sentiments, FZero, FZero),
                          Len(sentiments))

\* weight = profile_data['weight'] * profile_data['confidence']
profile_weight_float(p) == FMul(FOfInt(p.weight), FloatOf(p.confidence))

\* the loop of _calculate_overall_sentiment over vp, from the totals given
RECURSIVE OverallLoop(_, _, _)
OverallLoop(vp, total_weighted_score, total_weight) ==
    IF vp = <<>>
    THEN [ total_weighted_score |-> total_weighted_score,
           total_weight |-> total_weight ]
    ELSE OverallLoop(Tail(vp),
             FAdd(total_weighted_score,
                  FMul(FloatOf(Head(vp).score),
                       profile_weight_float(Head(vp)))),
             FAdd(total_weight, profile_weight_float(Head(vp))))

\* min(0.9, (total_content / 50) * 0.5 + 0.3)
overall_confidence_float(total_content) ==
    FMin(FOfDecimal(9, 10),
         FAdd(FMul(FDiv(FOfInt(total_content), FOfInt(50)), FOfDecimal(5, 10)),
              FOfDecimal(3, 10)))

OverallOfScore(overall_score, vp) ==
    [ score |-> FRound3(overall_score),
      sentiment |-> FloatLabel(overall_score),
      confidence |-> FRound3(overall_confidence_float(ContentSum(vp))),
      profiles_analyzed |-> Len(vp),
      total_content |-> ContentSum(vp),
      methodology |-> "weighted_multi_source" ]

OverallOfTotals(totals, vp) ==
    IF IsPositive(totals.total_weight)
    THEN OverallOfScore(
             FDiv(totals.total_weighted_score, totals.total_weight), vp)
    ELSE OverallOfScore(FZero, vp)

OverallOfValid(vp) ==
    IF vp = <<>>
    THEN [ score |-> 0, sentiment |-> "neutral", confidence |-> 0,
           profiles_analyzed |-> 0, total_content |-> 0 ]
    ELSE OverallOfTotals(OverallLoop(vp, FZero, FZero), vp)

_calculate_overall_sentiment_float(profile_results) ==
    OverallOfValid(valid_profiles(profile_results))

\* ------------------------------- the aggregators, given an input in two orders
\* Each aggregator is called on an input and then on the same values in
\* another order, as when method scores, items or subjects are produced in
\* parallel and collected as they come.

IsPermutation(s, t) ==
    /\ Len(s) = Len(t)
    /\ \A i \in 1..Len(s) :
        Cardinality({j \in 1..Len(s) : s[j] = s[i]})
            = Cardinality({j \in 1..Len(t) : t[j] = s[i]})

\* a first call, or a call of the same function on a reordering of the
\* input of the first
FirstOrReordered(fn, input) ==
    IF direct = <<>> THEN TRUE
    ELSE /\ direct[1].fn = fn
         /\ IsPermutation(input, direct[1].input)

\* method results at the threshold 0.1 with the confidences of the scorers,
\* and one strongly negative
OrderScores ==
    { MethodScore(100, 200), MethodScore(100, 300), MethodScore(100, 400),
      MethodScore(-1000, 900) }

\* items at the threshold 0.1 from three sources of different weight, and
\* one negative
OrderItems ==
    { ItemSentiment(100, 300, "news_api"),
      ItemSentiment(100, 300, "rss_financial"),
      ItemSentiment(100, 300, free_news_source("feeds.finance.yahoo.com")),
      ItemSentiment(-500, 600, "twitter_search") }

\* subjects at the threshold 0.1 with two and three items, and one negative
OrderSubjects ==
    { [profile |-> "alice", data |-> SubjectEntry(2, 100, 300)],
      [profile |-> "bob", data |-> SubjectEntry(2, 100, 300)],
      [profile |-> "carol", data |-> SubjectEntry(3, 100, 300)],
      [profile |-> "dave", data |-> SubjectEntry(10, -500, 700)] }

\* a dict has each key once
DistinctKeys(d) ==
    \A i, j \in 1..Len(d) : d[i].profile = d[j].profile => i = j

\* _combine_sentiment_scores(sentiment_scores, text)
CallCombineFloat ==
    /\ Len(direct) < MaxDirect
    /\ \E sentiment_scores \in SeqsUpTo(OrderScores, MaxScores) :
        /\ FirstOrReordered("_combine_sentiment_scores", sentiment_scores)
        /\ direct' = Append(direct,
                      [ fn |-> "_combine_sentiment_scores",
                        input |-> sentiment_scores,
                        result |-> _combine_sentiment_scores_float(
                                       sentiment_scores, <<>>) ])
    /\ UNCHANGED <<call, text, methods, item, crew>>
    /\ UNCHANGED <<agentVars, now, secVars>>

\* _calculate_weighted_sentiment(sentiments) with
\* _get_sentiment_distribution(sentiments)
CallWeightedFloat ==
    /\ Len(direct) < MaxDirect
    /\ \E sentiments \in SeqsUpTo(OrderItems, MaxItems) :
        /\ FirstOrReordered("_calculate_weighted_sentiment", sentiments)
        /\ direct' = Append(direct,
                      [ fn |-> "_calculate_weighted_sentiment",
                        input |-> sentiments,
                        result |->
                            [ average_sentiment |->
                                  _calculate_weighted_sentiment_float(
                                      sentiments),
                              sentiment_distribution |->
                                  _get_sentiment_distribution(sentiments) ] ])
    /\ UNCHANGED <<call, text, methods, item, crew>>
    /\ UNCHANGED <<agentVars, now, secVars>>

\* _calculate_overall_sentiment(profile_results)
CallOverallFloat ==
    /\ Len(direct) < MaxDirect
    /\ \E profile_results \in SeqsUpTo(OrderSubjects, MaxSubjects) :
        /\ DistinctKeys(profile_results)
        /\ FirstOrReordered("_calculate_overall_sentiment", profile_results)
        /\ direct' = Append(direct,
                      [ fn |-> "_calculate_overall_sentiment",
                        input |-> profile_results,
                        result |-> _calculate_overall_sentiment_float(
                                       profile_results) ])
    /\ UNCHANGED <<call, text, methods, item, crew>>
    /\ UNCHANGED <<agentVars, now, secVars>>

NextOrder == CallCombineFloat \/ CallWeightedFloat \/ CallOverallFloat

SpecOrder == Init /\ [][NextOrder]_vars

\* ================================================================== claims
\* ----------------------------------------------- what a state holds (Spec)
Ran == call_log # <<>>
Returned == Ran /\ agent_result.status = "success"
Raw == agent_result.raw_sentiment

\* the method results of the state
MethodResults == {methods[i] : i \in 1..Len(methods)} \ {None}

\* the item-level results of the state: the one of a call on a text, and
\* the sample_content of every profile entry
ItemResults ==
    (IF call # "idle" /\ item # None THEN {item} ELSE {})
    \cup
    (IF Returned
     THEN UNION { {e.data.sample_content[i] :
                      i \in 1..Len(e.data.sample_content)} :
                  e \in { Raw.profile_results[k] :
                            k \in { j \in 1..Len(Raw.profile_results) :
                                      "sample_content" \in
                                        DOMAIN Raw.profile_results[j].data } } }
     ELSE {})

\* the subject-level results of the state
SubjectResults ==
    IF Returned
    THEN { Raw.profile_results[k].data.average_sentiment :
             k \in { j \in 1..Len(Raw.profile_results) :
                       "average_sentiment" \in
                         DOMAIN Raw.profile_results[j].data } }
    ELSE {}

\* the batch-level result of the state
BatchResults == IF Returned THEN {Raw.overall_sentiment} ELSE {}

Produced == MethodResults \cup ItemResults \cup SubjectResults \cup BatchResults

\* C1: label consistency at every level: in every {score, sentiment} pair
\* that a method scorer, the item combiner, the subject aggregator or the
\* batch aggregator returns, sentiment is 'positive' iff score > 0.1,
\* 'negative' iff score < -0.1 and 'neutral' otherwise.
C1_LabelConsistency ==
    \A r \in Produced :
        r.sentiment = IF r.score > 100 THEN "positive"
                      ELSE IF r.score < -100 THEN "negative"
                      ELSE "neutral"

\* C2: range invariant: every score returned by a method scorer, the item
\* combiner, the subject aggregator or the batch aggregator is within
\* [-1, 1], and every confidence within [0, 1].
C2_RangeInvariant ==
    \A r \in Produced :
        /\ -1000 <= r.score /\ r.score <= 1000
        /\ 0 <= r.confidence /\ r.confidence <= 1000

\* a run that produced results at every level: two profiles take part in a
\* batch verdict that is not zero
C2_Witness ==
    /\ Returned
    /\ Raw.overall_sentiment.profiles_analyzed = 2
    /\ Raw.overall_sentiment.score # 0
    /\ \E r \in ItemResults : r.score < 0

\* ------------------------------------------------------- the loop, per index
Raises(i) == request.supplied[i].raises

\* the key under which iteration i stores its entry
KeyOf(i) ==
    IF Raises(i) THEN request.profile_list[i]
    ELSE lstrip_at(request.profile_list[i])

Indices == 1..Len(request.profile_list)

\* no later iteration stores under the same key
IsLast(i) == \A j \in Indices : j > i => KeyOf(j) # KeyOf(i)

\* the request without the profiles whose iteration raises
Survivors == SelectSeq([i \in Indices |-> i], LAMBDA i : ~Raises(i))

WithoutRaising ==
    AnalysisResults(
        [k \in 1..Len(Survivors) |-> request.profile_list[Survivors[k]]],
        request.symbols,
        [k \in 1..Len(Survivors) |-> request.supplied[Survivors[k]]])

\* the entries of a dict without those that have an 'error'
NoErrorEntries(d) == SelectSeq(d, LAMBDA e : "error" \notin DOMAIN e.data)

\* C8: an exception in the processing of one subject is per-subject and not
\* fatal: it is appended to errors, the subject's entry is an error entry,
\* the subject is left out of overall_sentiment, and every other subject is
\* still processed and gets the entry it would get without the failing one.
C8_FailureIsPerSubject ==
    Returned =>
        /\ Len(Raw.errors) = Cardinality({i \in Indices : Raises(i)})
        /\ \A i \in Indices :
             Raises(i) =>
               /\ \E k \in 1..Len(Raw.errors) :
                     Raw.errors[k].profile = request.profile_list[i]
               /\ DictHas(Raw.profile_results, KeyOf(i))
               /\ IsLast(i) =>
                     "error" \in DOMAIN DictGet(Raw.profile_results, KeyOf(i))
        /\ Raw.overall_sentiment =
              _calculate_overall_sentiment(NoErrorEntries(Raw.profile_results))
        /\ \A j \in Indices :
             ( /\ ~Raises(j)
               /\ \A i \in Indices :
                    Raises(i) => lstrip_at(request.profile_list[i])
                                 # lstrip_at(request.profile_list[j]) )
             => /\ DictHas(Raw.profile_results, KeyOf(j))
                /\ DictGet(Raw.profile_results, KeyOf(j))
                   = DictGet(WithoutRaising.profile_results, KeyOf(j))

\* a run in which the first subject raised and the second one was scored
C8_Witness ==
    /\ Returned
    /\ Len(request.profile_list) = 2
    /\ Raises(1) /\ ~Raises(2)
    /\ lstrip_at(request.profile_list[1]) # lstrip_at(request.profile_list[2])
    /\ "average_sentiment" \in DOMAIN DictGet(Raw.profile_results, KeyOf(2))
    /\ Raw.overall_sentiment.profiles_analyzed = 1

\* C9: nothing is fatal to the batch: whatever fails (a supplier, the
\* scoring, the cache write of _cache_results), a run returns the per-subject
\* results and the overall verdict of the subjects that succeeded.
C9_NothingIsFatal ==
    Ran => /\ "raw_sentiment" \in DOMAIN agent_result
           /\ "overall_sentiment" \in DOMAIN agent_result.raw_sentiment

\* the suppliers of iteration i gave nothing
NoContent(i) == ~Raises(i) /\ AllContent(request.supplied[i]) = <<>>

\* the dict without the entries of the subjects without content
ContentEntries(d) ==
    SelectSeq(d, LAMBDA e :
        ~\E i \in Indices : NoContent(i) /\ IsLast(i) /\ KeyOf(i) = e.profile)

\* C10: a subject whose suppliers give nothing gets an error entry with no
\* content, is left out of the overall verdict (score, profiles_analyzed,
\* weight) and does not abort the batch: every subject of the list has its
\* entry.
C10_NoContentSubjects ==
    Returned =>
        /\ \A i \in Indices :
             (NoContent(i) /\ IsLast(i)) =>
               LET e == DictGet(Raw.profile_results, KeyOf(i))
               IN  /\ "error" \in DOMAIN e
                   /\ "average_sentiment" \notin DOMAIN e
                   /\ e.content_count = 0
        /\ Raw.overall_sentiment =
              _calculate_overall_sentiment(ContentEntries(Raw.profile_results))
        /\ \A j \in Indices : DictHas(Raw.profile_results, KeyOf(j))

\* a run in which the first subject had no content and the second was scored
C10_Witness ==
    /\ Returned
    /\ Len(request.profile_list) = 2
    /\ NoContent(1) /\ IsLast(1)
    /\ ~NoContent(2) /\ ~Raises(2)
    /\ Raw.overall_sentiment.profiles_analyzed = 1
    /\ Raw.overall_sentiment.total_content > 0

\* ------------------------------------------------ runs one after another
\* the hours for which _is_cache_fresh of SentimentAnalyzer takes a file as
\* fresh
SentimentCacheHours == 2

\* C3: of two analyses of the same profiles within two hours, the second is
\* served from the cache file the first wrote: the suppliers are called for
\* the profiles of the first only.
C3_SecondRunFromCache ==
    \A i, j \in DOMAIN call_log :
        ( /\ i < j
          /\ call_log[i].profile_list = call_log[j].profile_list
          /\ call_log[i].symbols = call_log[j].symbols
          /\ call_log[i].wrote
          /\ call_log[j].time - call_log[i].time < SentimentCacheHours )
        => call_log[j].fetched = 0

\* C5: a failure is not cached: no file of the sentiment cache holds the
\* results of a run in which the processing of a profile failed.
C5_FailureNotCached ==
    \A f \in DOMAIN cache_dir : cache_dir[f].payload.errors = <<>>

\* C7: cache keys never collide: two runs that differ in the profile list or
\* in the symbol filter write different files, so that neither overwrites
\* the entry of the other.
C7_KeysNeverCollide ==
    \A i, j \in DOMAIN call_log :
        ( /\ call_log[i].wrote /\ call_log[j].wrote
          /\ \/ call_log[i].profile_list # call_log[j].profile_list
             \/ call_log[i].symbols # call_log[j].symbols )
        => call_log[i].file # call_log[j].file

\* --------------------------------------------- the fetchers, call after call
Steps == sec_call.steps

\* the age of the cache file that step k found
Age(k) == Steps[k].time - Steps[k].before.mtime

\* the file of step k was valid by the rule now - produced_at < TTL, with
\* TTL 1 h for recent and 24 h for historical filings
Valid(k) ==
    /\ Steps[k].before # None
    /\ Age(k) < (IF Steps[k].fn = "recent" THEN 1 ELSE 24)

Failed(k) == "error" \in DOMAIN Steps[k].result

\* no later step of the call is about the same file
LastOf(k) == \A m \in DOMAIN Steps : m > k => Steps[m].file # Steps[k].file

\* C4: cache hit in the filing fetchers: a cache file is used exactly while
\* its age is below the TTL (1 h recent, 24 h historical); then what the
\* file holds is returned as it is, the upstream is not called and the file
\* stays; at an age of the TTL or more the upstream is called, and what it
\* gives replaces the file.
C4_CacheHit ==
    \A k \in DOMAIN Steps :
        /\ Valid(k) =>
              /\ ~Steps[k].invoked
              /\ Steps[k].result = Steps[k].before.payload.json
              /\ Steps[k].after = Steps[k].before
        /\ ~Valid(k) =>
              /\ Steps[k].invoked
              /\ ~Failed(k) =>
                    Steps[k].after = [ payload |-> json_dump(Steps[k].result),
                                       mtime |-> Steps[k].time ]
        /\ LastOf(k) =>
              /\ FileOf(sec_cache, Steps[k].file) = Steps[k].after
              /\ DictGet(sec_call.results, Steps[k].symbol) = Steps[k].result

\* a call that found a file of exactly one hour, fetched again and replaced
\* it, and then was served from the file it had just written
C4_Witness ==
    /\ Len(Steps) = 2
    /\ Steps[1].before # None /\ Age(1) = 1 /\ Steps[1].fn = "recent"
    /\ Steps[1].invoked /\ ~Failed(1)
    /\ Steps[1].after # Steps[1].before
    /\ Valid(2) /\ ~Steps[2].invoked
    /\ Steps[2].result.filings # <<>>
    /\ Steps[2].result # Steps[1].result

\* ------------------------------------------- the fetchers, called side by side
\* C6: calls for the same cache key are serialized: at no time are two
\* upstream fetches for the same cache file in flight.
C6_SingleFlight ==
    \A p, q \in Callers :
        ( /\ p # q
          /\ callers[p].pc = "fetch"
          /\ callers[q].pc = "fetch" )
        => CallerFile(callers[p]) # CallerFile(callers[q])

\* ------------------------------------------------- items that are dropped
\* the text of a content is empty after _clean_text
EmptyAfterCleaning(t) == TextLen(_clean_text(t)) = 0

\* the contents of iteration i whose text is not empty after _clean_text
Scorable(i) ==
    SelectSeq(AllContent(request.supplied[i]),
              LAMBDA c : ~EmptyAfterCleaning(c.text))

\* C11: an item is dropped, with no scorer called on it, exactly when its
\* text is empty after _clean_text: _analyze_advanced_sentiment gives None
\* for such a text and a result for every other, and in a run the
\* content_count and the sentiment_distribution of a subject count exactly
\* the items whose cleaned text is not empty.
C11_DroppedExactlyWhenEmpty ==
    /\ call = "advanced" => (item = None <=> EmptyAfterCleaning(text))
    /\ Returned =>
         \A i \in Indices :
            (~Raises(i) /\ IsLast(i) /\ Scorable(i) # <<>>) =>
               LET e == DictGet(Raw.profile_results, KeyOf(i))
               IN  /\ "average_sentiment" \in DOMAIN e
                   /\ e.content_count = Len(Scorable(i))

\* ------------------------------------------------- the combiner, on its own
Combined == call = "combine"

\* C12: the combiner gives None for an empty sequence of method results, and
\* no neutral placeholder.
C12_EmptyCombinesToNone ==
    (Combined /\ methods = <<>>) => item = None

\* the mean of the scores, to the thousandth
UnweightedMean(rs) ==
    RoundDiv(SumSeq([i \in 1..Len(rs) |-> rs[i].score]), Len(rs))

\* C13: for a non-empty sequence of method results the score of the combiner
\* is the confidence-weighted mean of the scores where the confidences sum
\* to more than 0, and the unweighted mean of the scores where they sum to 0
\* (both to the thousandth).
C13_WeightedMeanOrMean ==
    (Combined /\ methods # <<>>) =>
        IF ConfidenceSum(methods) > 0
        THEN item.score =
                RoundDiv(WeightedScoreSum(methods), ConfidenceSum(methods))
        ELSE item.score = UnweightedMean(methods)

\* C14: combining one method result m gives the score of m and the
\* confidence min(0.95, m.confidence), for every score in [-1, 1] and every
\* confidence in [0, 1].
C14_SingleItemIdentity ==
    (Combined /\ Len(methods) = 1) =>
        /\ item.score = methods[1].score
        /\ item.confidence = Min(950, methods[1].confidence)

\* ----------------------------- _calculate_weighted_sentiment, on its own
\* the calls of the subject aggregator
WeightedCalls ==
    {k \in DOMAIN direct : direct[k].fn = "_calculate_weighted_sentiment"}

SourceOf(s) == Get(s, "source", "unknown")

\* the sources of the table of reliability weights
TableSources ==
    { "news_api", "alpha_vantage_news", "rss_financial", "twitter_search",
      "market_sentiment" }

\* C15: the source of every item resolves to a weight in [0, 1]: 1.0 for the
\* news wire, 0.9 for the financial news feed, 0.8 for general RSS, 0.7 for
\* the social search, 0.6 for the market context, and 0.5 for a source that
\* is not in the table or is missing; every source label that the suppliers
\* give to what they read from an RSS feed resolves to 0.8.
C15_SourceLookupTotal ==
    \A k \in WeightedCalls :
        \A i \in DOMAIN direct[k].input :
            LET source == SourceOf(direct[k].input[i])
                w == direct[k].weights[i]
            IN  /\ w \in 0..10
                /\ source = "news_api" => w = 10
                /\ source = "alpha_vantage_news" => w = 9
                /\ source = "rss_financial" => w = 8
                /\ source = "twitter_search" => w = 7
                /\ source = "market_sentiment" => w = 6
                /\ ( source \notin TableSources
                     /\ source \notin EmittedRssSources
                     /\ source # "twitter_alternative" ) => w = 5
                /\ source \in EmittedRssSources => w = 8

\* w_i = reliability_weight(source_i) * confidence_i, in 1/10000
EffectiveWeights(c) ==
    [i \in DOMAIN c.input |-> c.weights[i] * c.input[i].confidence]

\* the sum of score_i * w_i
EffectiveScoreSum(c) ==
    SumSeq([i \in DOMAIN c.input |->
               c.input[i].score * EffectiveWeights(c)[i]])

\* the items of the scenario: {score 0.6, reliability 1.0, confidence 0.8}
\* and {score -0.2, reliability 0.5, confidence 0.4}
ScenarioItems ==
    << ItemSentiment(600, 800, "news_api"), ItemSentiment(-200, 400, "blog") >>

\* C16: for a non-empty list of items whose effective weights sum to more
\* than 0, the score of _calculate_weighted_sentiment is
\* sum(score_i * w_i) / sum(w_i) with w_i = reliability_weight(source_i) *
\* confidence_i (to the thousandth, as the score is returned); the items of
\* the scenario have the weights 0.8 and 0.2 and give the score 0.44 and
\* the sentiment positive.
C16_SubjectFormula ==
    \A k \in WeightedCalls :
        LET c == direct[k]
            total == SumSeq(EffectiveWeights(c))
        IN  /\ (c.input # <<>> /\ total > 0) =>
                  2 * Abs(c.result.score * total - EffectiveScoreSum(c))
                     <= total
            /\ c.input = ScenarioItems =>
                  /\ EffectiveWeights(c) = <<8000, 2000>>
                  /\ c.result.score = 440
                  /\ c.result.sentiment = "positive"

\* the aggregator was called on the items of the scenario, and on a list
\* whose quotient is not a whole number of thousandths
C16_Witness ==
    /\ \E k \in WeightedCalls :
          direct[k].input = ScenarioItems /\ direct[k].result.score = 440
    /\ \E k \in WeightedCalls :
          /\ Len(direct[k].input) = 3
          /\ SumSeq(EffectiveWeights(direct[k])) > 0
          /\ EffectiveScoreSum(direct[k])
                # direct[k].result.score * SumSeq(EffectiveWeights(direct[k]))

\* C18: for every non-empty list L of items, the list L with one more item
\* of score 1.0 and of the largest effective weight (reliability 1.0, the
\* largest confidence of an item) has an aggregate score that is not below
\* the aggregate score of L.
C18_MonotoneDominance ==
    \A i, j \in WeightedCalls :
        ( /\ direct[i].input # <<>>
          /\ direct[j].input = Append(direct[i].input, TopItem) )
        => direct[j].result.score >= direct[i].result.score

\* the aggregator was called on a list of two items with a negative aggregate
\* and then on the list with the item appended, and the score went up; and
\* in another pair of calls a list that was at 1.0 stayed there
C18_Witness ==
    /\ Len(direct) = 2
    /\ direct[1].fn = "_calculate_weighted_sentiment"
    /\ direct[2].fn = "_calculate_weighted_sentiment"
    /\ Len(direct[1].input) = 2
    /\ direct[2].input = Append(direct[1].input, TopItem)
    /\ direct[1].result.score < 0
    /\ direct[2].result.score > direct[1].result.score

\* ------------------------------------------------ subjects without an item
\* iteration i did not raise and none of its contents was scored: the list
\* of items of the subject is empty
EmptyItemList(i) ==
    /\ ~Raises(i)
    /\ profile_sentiments(AllContent(request.supplied[i])) = <<>>

\* C17: a subject with an empty list of items gets the result {item_count 0,
\* score 0, confidence 0, sentiment neutral}, which is not an error entry.
C17_EmptyInputDeterminism ==
    Returned =>
        \A i \in Indices :
            (EmptyItemList(i) /\ IsLast(i)) =>
               LET e == DictGet(Raw.profile_results, KeyOf(i))
               IN  /\ "error" \notin DOMAIN e
                   /\ e.content_count = 0
                   /\ e.average_sentiment.score = 0
                   /\ e.average_sentiment.confidence = 0
                   /\ e.average_sentiment.sentiment = "neutral"

\* ------------------------------ _calculate_overall_sentiment, on its own
\* the calls of the batch aggregator
OverallCalls ==
    {k \in DOMAIN direct : direct[k].fn = "_calculate_overall_sentiment"}

\* the number of scored items of a subject entry: an error entry has none
ItemCount(data) ==
    IF "error" \in DOMAIN data \/ "average_sentiment" \notin DOMAIN data
    THEN 0 ELSE data.content_count

\* the subjects that take part, in order
Participants(profile_results) ==
    SelectSeq(profile_results, LAMBDA e : ItemCount(e.data) > 0)

\* weight_i = item_count_i * confidence_i, in thousandths
BatchWeights(ps) ==
    [i \in DOMAIN ps |->
        ps[i].data.content_count * ps[i].data.average_sentiment.confidence]

BatchScoreSum(ps) ==
    SumSeq([i \in DOMAIN ps |->
               ps[i].data.average_sentiment.score * BatchWeights(ps)[i]])

TotalItems(profile_results) ==
    SumSeq([i \in DOMAIN profile_results |->
               ItemCount(profile_results[i].data)])

\* the subjects of the scenario: {score 0.5, item_count 10, confidence 0.7}
\* and {score -0.5, item_count 2, confidence 0.5}
ScenarioSubjects ==
    AsProfileResults(<< SubjectEntry(10, 500, 700),
                        SubjectEntry(2, -500, 500) >>)

\* C19: only the subjects with item_count > 0 take part in the batch
\* verdict, each with the weight item_count * confidence; the score is
\* sum(score_i * weight_i) / sum(weight_i) (to the thousandth, as it is
\* returned), and 0 if the weights sum to 0; the subjects of the scenario
\* have the weights 7.0 and 1.0 and give the score 0.375 and the sentiment
\* positive.
C19_BatchFormula ==
    \A k \in OverallCalls :
        LET c == direct[k]
            ps == Participants(c.input)
            total == SumSeq(BatchWeights(ps))
        IN  /\ c.result.profiles_analyzed = Len(ps)
            /\ total > 0 =>
                  2 * Abs(c.result.score * total - BatchScoreSum(ps)) <= total
            /\ total = 0 => c.result.score = 0
            /\ c.input = ScenarioSubjects =>
                  /\ BatchWeights(ps) = <<7000, 1000>>
                  /\ c.result.score = 375
                  /\ c.result.sentiment = "positive"

\* the batch aggregator was called on the subjects of the scenario, and on
\* three subjects of which one is an error entry with content, one has the
\* count 0 and one takes part
C19_Witness ==
    /\ \E k \in OverallCalls :
          direct[k].input = ScenarioSubjects /\ direct[k].result.score = 375
    /\ \E k \in OverallCalls :
          /\ Len(direct[k].input) = 3
          /\ direct[k].result.profiles_analyzed = 1
          /\ \E i \in 1..3 :
                /\ "error" \in DOMAIN direct[k].input[i].data
                /\ direct[k].input[i].data.content_count > 0
          /\ \E i \in 1..3 :
                /\ "average_sentiment" \in DOMAIN direct[k].input[i].data
                /\ direct[k].input[i].data.content_count = 0

\* min(0.9, (total / 50) * 0.5 + 0.3), in thousandths
BatchConfidence(total) == Min(900, total * 10 + 300)

\* C20: for every sequence of subject results, one with no subject that
\* takes part included, the confidence of the batch verdict is
\* min(0.9, (sum of item_count / 50) * 0.5 + 0.3): it is never below 0.3,
\* does not decrease as the total item count grows, and is 0.9 at most.
C20_BatchConfidence ==
    /\ \A k \in OverallCalls :
          /\ direct[k].result.confidence =
                BatchConfidence(TotalItems(direct[k].input))
          /\ direct[k].result.confidence >= 300
          /\ direct[k].result.confidence <= 900
    /\ \A i, j \in OverallCalls :
          TotalItems(direct[i].input) <= TotalItems(direct[j].input)
          => direct[i].result.confidence <= direct[j].result.confidence

\* ------------------------------------------------- the counters of a batch
\* the item count that an entry of the per-subject map reports
ReportedCount(data) == Get(data, "content_count", 0)

\* C21: in the batch verdict profiles_analyzed is the number of the subjects
\* that take part (those with an item count above 0), and total_content is
\* the sum of the item counts of all subjects of the per-subject map, those
\* that do not take part included.
C21_BatchCounters ==
    Returned =>
        LET pr == Raw.profile_results
        IN  /\ Raw.overall_sentiment.profiles_analyzed =
                  Cardinality({k \in DOMAIN pr : ReportedCount(pr[k].data) > 0})
            /\ Raw.overall_sentiment.total_content =
                  SumSeq([k \in DOMAIN pr |-> ReportedCount(pr[k].data)])

\* --------------------------------------------------- the scorers of an item
\* the scorers were called on a text: by _analyze_advanced_sentiment on the
\* cleaned text, or on the text as it is
Scored == call \in {"advanced", "direct"} /\ methods # <<>>

ScoredText == IF call = "advanced" THEN _clean_text(text) ELSE text

\* a term of one of the two polarity sets occurs in the text
KeywordOccurs(t) ==
    \E i \in 1..Len(t) :
        Sub(t[i]) \cap (positive_keywords \cup negative_keywords) # {}

\* the scorers that gave a result
Contributing == {i \in 1..Len(methods) : methods[i] # None}

ContributingSeq == SelectSeq(methods, LAMBDA r : r # None)

ClaimedWeight(matches, strong) ==
    Cardinality(matches) + Cardinality(matches \cap strong)

\* C24: the positive and the negative terms are disjoint; a matched term
\* has the weight 1 in its polarity and a matched strong term the weight 2;
\* the keyword score is (pos_weight - neg_weight) / max(pos_weight +
\* neg_weight, 1), clamped to [-1, 1] (to the thousandth).
C24_KeywordFormula ==
    /\ positive_keywords \cap negative_keywords = {}
    /\ (Scored /\ methods[1] # None) =>
          LET pos_weight ==
                  ClaimedWeight(methods[1].positive_matches, strong_positive)
              neg_weight ==
                  ClaimedWeight(methods[1].negative_matches, strong_negative)
              den == Max(pos_weight + neg_weight, 1)
          IN  2 * Abs(methods[1].score * den
                      - 1000 * (pos_weight - neg_weight)) <= den

\* ------------------------------------------------------ the pattern scorer
\* C25: the pattern scorer gives a result, never None, for every text, and
\* the confidence of the result is 0.4 whatever cues of punctuation, upper
\* case or emoji were found.
C25_PatternAlwaysScores ==
    Scored =>
        /\ methods[2] # None
        /\ methods[2].method = "pattern_analysis"
        /\ methods[2].confidence = 400

\* a text with an exclamation mark, a word in upper case or an emoji was
\* scored, and the cues moved the score
C25_Witness ==
    /\ Scored
    /\ \E i \in 1..Len(ScoredText) :
          ScoredText[i] \in {"!", "?", "MOON", "SELL", "EMOJI_ROCKET",
                             "EMOJI_CRY"}
    /\ methods[2].score # 0
    /\ methods[2].confidence = 400

\* ---------------------------------------------------- the contextual scorer
UrgencyCue(t) ==
    AnyOccurs({"now", "today", "asap", "quickly", "immediately"}, t)

UncertaintyCue(t) ==
    AnyOccurs({"maybe", "might", "could", "uncertain", "not sure"}, t)

\* C26: the confidence of the contextual scorer starts at 0.3, is raised by
\* 0.1 when an urgency cue is in the text and lowered by 0.1 when an
\* uncertainty cue is, is changed by no other cue, and is clamped to
\* [0.1, 0.9].
C26_ContextConfidence ==
    Scored =>
        methods[3].confidence =
            Max(100, Min(900, 300
                              + (IF UrgencyCue(ScoredText) THEN 100 ELSE 0)
                              - (IF UncertaintyCue(ScoredText) THEN 100
                                 ELSE 0)))

\* ------------------------------------------- the distribution of a subject
\* the scored items of iteration i
ItemsOf(i) == profile_sentiments(AllContent(request.supplied[i]))

Buckets == {"positive", "negative", "neutral"}

\* the iterations whose entry is a subject result with a distribution
Distributed ==
    IF Returned
    THEN { i \in Indices :
             /\ ~Raises(i) /\ IsLast(i)
             /\ "sentiment_distribution"
                   \in DOMAIN DictGet(Raw.profile_results, KeyOf(i)) }
    ELSE {}

\* C27: the distribution of a subject counts, per bucket, the items whose
\* own label (not the label of the aggregate) is positive, negative or
\* neutral; so positive + negative + neutral is the content_count of the
\* subject.
C27_Distribution ==
    \A i \in Distributed :
        LET e == DictGet(Raw.profile_results, KeyOf(i))
            d == e.sentiment_distribution
        IN  /\ DOMAIN d = Buckets
            /\ \A b \in Buckets :
                  d[b] = Cardinality({k \in DOMAIN ItemsOf(i) :
                                         ItemsOf(i)[k].sentiment = b})
            /\ d["positive"] + d["negative"] + d["neutral"] = e.content_count

\* a subject with items in two buckets, one of them not the bucket of the
\* aggregate
C27_Witness ==
    \E i \in Distributed :
        LET e == DictGet(Raw.profile_results, KeyOf(i))
        IN  /\ e.content_count >= 3
            /\ \E b \in Buckets :
                  /\ b # e.average_sentiment.sentiment
                  /\ e.sentiment_distribution[b] > 0
            /\ e.sentiment_distribution[e.average_sentiment.sentiment] > 0

\* ---------------------------------------- what an item is combined of
\* C28: every result of _analyze_advanced_sentiment that is not None has
\* the method 'combined' and a component_count of 2 or 3: the pattern and
\* the contextual scorer give a result for every text that passes the
\* length check, so the 'fallback' result is never returned and no item is
\* combined of the keyword scorer alone; the same holds of the items that
\* a run reports.
C28_CombinedOfTwoOrThree ==
    /\ (call = "advanced" /\ item # None) =>
          /\ item.method = "combined"
          /\ item.component_count \in {2, 3}
          /\ methods[2] # None
          /\ methods[3] # None
    /\ \A r \in ItemResults : r.method = "combined"

\* a text with a keyword passed the length check and was combined of all
\* three scorers
C28_Witness ==
    /\ call = "advanced"
    /\ item # None
    /\ methods[1] # None
    /\ item.component_count = 3
    /\ item.method = "combined"

\* ------------------------------------------- the assessments of the agent
\* the runs of the agent on the results of a batch
AgentRuns == {k \in DOMAIN direct : direct[k].fn = "SentimentAgent.run"}

\* C29: whatever analyze_profiles_sentiment returns, SentimentAgent.run
\* reports the catalyst_potential 'low', never 'medium' or 'high', and never
\* the theme 'high_engagement', however many profiles and items were
\* analysed: overall_sentiment has no 'total_posts', the key that the agent
\* reads.
C29_CatalystAlwaysLow ==
    \A k \in AgentRuns :
        /\ "total_posts" \notin DOMAIN direct[k].input.overall_sentiment
        /\ direct[k].result.market_assessment.catalyst_potential = "low"
        /\ "high_engagement" \notin direct[k].result.insights.key_themes

\* a run on nine profiles with ninety items and a strong sentiment, which
\* reports a low engagement
C29_Witness ==
    \E k \in AgentRuns :
        /\ direct[k].input.overall_sentiment.profiles_analyzed = 9
        /\ direct[k].input.overall_sentiment.total_content = 90
        /\ direct[k].result.insights.sentiment_strength = "strong"
        /\ direct[k].result.market_assessment.catalyst_potential = "low"
        /\ "low_engagement" \in direct[k].result.insights.key_themes

\* ------------------------------------------------------------------ C30
ClaimedOrder ==
    <<"sec_agent", "history_agent", "sentiment_agent", "report_agent">>

KickoffRejected == crew.pc # "idle" /\ ~_validate_inputs(crew.inputs).valid

\* The last call started has not returned and the run is over: it raised.
AgentRaised == crew.pc = "done" /\ Len(crew.started) > Len(crew.returned)

C30_State ==
    /\ KickoffRejected =>
        /\ crew.pc = "done"
        /\ crew.result.status = "error"
        /\ crew.started = <<>>
    /\ Len(crew.started) <= Len(ClaimedOrder)
    /\ \A i \in 1..Len(crew.started) : crew.started[i] = ClaimedOrder[i]
    /\ Len(crew.returned) <= Len(crew.started)
    /\ Len(crew.started) <= Len(crew.returned) + 1
    /\ \A i \in 1..Len(crew.returned) :
        crew.returned[i].agent = crew.started[i]
    /\ AgentRaised => crew.result.status = "error"

C30_Step ==
    /\ crew'.started # crew.started =>
        /\ crew.pc # "done"
        /\ Len(crew.returned) = Len(crew.started)
        /\ Len(crew.started) < Len(ClaimedOrder)
        /\ crew'.started =
            Append(crew.started, ClaimedOrder[Len(crew.started) + 1])
    /\ crew.pc = "in_agent" /\ crew'.returned = crew.returned =>
        /\ crew'.pc = "done"
        /\ crew'.result.status = "error"
        /\ crew'.started = crew.started
    /\ crew.pc = "done" => crew' = crew

\* C30: in kickoff, inputs that _validate_inputs rejects give an error
\* result and no agent is run; otherwise the agents are called at most once
\* each in the order SEC, history, sentiment, report, each call starting
\* only when the one before it has returned, and a call that raises ends
\* the run with status 'error' and no later agent is called.
C30_KickoffOrder == []C30_State /\ [][C30_Step]_vars

\* The sentiment call raised after SEC and history had returned.
C30_Witness ==
    /\ AgentRaised
    /\ Len(crew.started) = 3
    /\ crew.started[3] = "sentiment_agent"
    /\ crew.result.status = "error"

\* ------------------------------------------------------------------ C22
\* C22: the item combiner, the subject aggregator with the distribution, and
\* the batch aggregator give the same result for an input and for every
\* permutation of it.
C22_OrderInsensitive ==
    \A i, j \in 1..Len(direct) :
        /\ direct[i].fn = direct[j].fn
        /\ IsPermutation(direct[i].input, direct[j].input)
        => direct[i].result = direct[j].result

====
